---- MODULE Spec2Model ----
(***************************************************************************)
(* Model of the note-publishing server: the posts table, the id generator, *)
(* the request validators, the four route handlers of the posts router,    *)
(* the error handler, and the API token middleware; and of the plugin      *)
(* that publishes notes to it: its map from note paths to posts, its       *)
(* operations in flight, the vault events, and the loading of its data.    *)
(*                                                                         *)
(* Identifiers, secrets and tokens are sequences of one-character strings. *)
(* Titles and contents are run-length encoded texts: a sequence of runs    *)
(* [c |-> character, n |-> repetitions], so that a text of 100,001         *)
(* characters is one run.                                                  *)
(***************************************************************************)
EXTENDS Integers, Sequences, FiniteSets, TLC

VARIABLES
  posts,      \* the posts table
  req,        \* the requests in flight, one record per slot
  served,     \* number of requests received so far
  ghost,      \* history: what the applied writes meant to store, and the ids with an acknowledged PUT/DELETE
  apiToken,   \* process.env.API_TOKEN
  nodeEnv,    \* process.env.NODE_ENV
  mw,         \* one invocation of an authentication function and what it did
  gen,        \* one invocation of the id generator and what it did
  client      \* the plugin: its data, the vault, and its operations in flight

vars == <<posts, req, served, ghost, apiToken, nodeEnv, mw, gen, client>>

None == "none"

(* ------------------------------ bounds -------------------------------- *)

\* total number of requests the server receives in one behaviour
MaxRequests == 2

\* number of requests that can be in flight at the same time
MaxInFlight == 2

\* number of middleware invocations explored one after the other
MaxCalls == 2

\* number of generateUnique invocations explored one after the other
MaxGenCalls == 2

\* Math.random() yields n / RandomScale for n in 0..RandomScale-1
RandomScale == 110

\* number of requests one IP address sends within one hour
MaxAuthAttempts == 6

\* number of operations of the plugin (create, update, delete) in one behaviour
MaxOps == 2

\* number of vault events (rename, delete) in one behaviour
MaxVaultEvents == 2

(* --------------------------- id generator ----------------------------- *)

\* an alphabet that keeps the lower-case l
CHARS_withEll ==
  <<"a", "b", "c", "d", "e", "f", "g", "h", "i", "j", "k", "l", "m", "n", "p",
    "q", "r", "s", "t", "u", "v", "w", "x", "y", "z", "A", "B", "C", "D",
    "E", "F", "G", "H", "J", "K", "M", "N", "P", "Q", "R", "S", "T", "U",
    "V", "W", "X", "Y", "Z", "2", "3", "4", "5", "6", "7", "8", "9">>

\* an alphabet that lost its last digit
CHARS_withoutNine ==
  <<"a", "b", "c", "d", "e", "f", "g", "h", "i", "j", "k", "m", "n", "p",
    "q", "r", "s", "t", "u", "v", "w", "x", "y", "z", "A", "B", "C", "D",
    "E", "F", "G", "H", "J", "K", "M", "N", "P", "Q", "R", "S", "T", "U",
    "V", "W", "X", "Y", "Z", "2", "3", "4", "5", "6", "7", "8">>

CHARS ==
  <<"a", "b", "c", "d", "e", "f", "g", "h", "i", "j", "k", "m", "n", "p",
    "q", "r", "s", "t", "u", "v", "w", "x", "y", "z", "A", "B", "C", "D",
    "E", "F", "G", "H", "J", "K", "M", "N", "P", "Q", "R", "S", "T", "U",
    "V", "W", "X", "Y", "Z", "2", "3", "4", "5", "6", "7", "8", "9">>

ID_LENGTH == 8

maxAttempts == 10

Range(s) == { s[i] : i \in DOMAIN s }

Rep(c, n) == [i \in 1..n |-> c]

\* generate(): draw[i] is the value of Math.floor(Math.random() * CHARS.length)
\* in iteration i
generate(draw) == [i \in 1..ID_LENGTH |-> CHARS[draw[i] + 1]]

\* Math.floor(Math.random() * this.CHARS.length) for Math.random() = n / RandomScale
randomIndex(n) == (n * Len(CHARS)) \div RandomScale

\* the outcomes of the random source that are explored
Draws == { Rep(0, ID_LENGTH), Rep(1, ID_LENGTH) }

isValidFormat_lengthOnly(id) == Len(id) = ID_LENGTH

isValidFormat(id) ==
  /\ Len(id) = ID_LENGTH
  /\ \A i \in 1..Len(id) : id[i] \in Range(CHARS)

HexDigits ==
  {"0", "1", "2", "3", "4", "5", "6", "7", "8", "9",
   "a", "b", "c", "d", "e", "f", "A", "B", "C", "D", "E", "F"}

\* uuidv4(): 32 random hex digits with the version digit 4 and a variant
\* digit of 8, 9, a or b; h is the random hex digit used for every free
\* position and v the variant digit
generateSecret(h, v) ==
  Rep(h, 8) \o <<"-">> \o Rep(h, 4) \o <<"-", "4">> \o Rep(h, 3)
    \o <<"-", v>> \o Rep(h, 3) \o <<"-">> \o Rep(h, 12)

SecretDraws == { <<"1", "8">>, <<"2", "b">> }

\* /^[0-9a-f]{8}-[0-9a-f]{4}-4[0-9a-f]{3}-[89ab][0-9a-f]{3}-[0-9a-f]{12}$/i
uuidRegex(s) ==
  /\ Len(s) = 36
  /\ \A i \in 1..36 :
       IF i \in {9, 14, 19, 24} THEN s[i] = "-"
       ELSE IF i = 15 THEN s[i] = "4"
       ELSE IF i = 20 THEN s[i] \in {"8", "9", "a", "b", "A", "B"}
       ELSE s[i] \in HexDigits

isValidSecret(secret) == uuidRegex(secret)

\* express-validator isUUID(4)
isUUID4(s) == uuidRegex(s)

(* ------------------------- texts and sanitizers ------------------------ *)

Run(c, n) == [c |-> c, n |-> n]

\* the number of characters of a text (summed by halves)
RECURSIVE TextLen(_)
TextLen(t) ==
  IF Len(t) = 0 THEN 0
  ELSE IF Len(t) = 1 THEN t[1].n
  ELSE TextLen(SubSeq(t, 1, Len(t) \div 2))
         + TextLen(SubSeq(t, Len(t) \div 2 + 1, Len(t)))

Whitespace == {" "}

RECURSIVE ltrim(_)
ltrim(t) ==
  IF t = <<>> THEN t
  ELSE IF Head(t).c \in Whitespace THEN ltrim(Tail(t)) ELSE t

RECURSIVE rtrim(_)
rtrim(t) ==
  IF t = <<>> THEN t
  ELSE IF t[Len(t)].c \in Whitespace THEN rtrim(SubSeq(t, 1, Len(t) - 1))
  ELSE t

\* validator.js trim(): strips leading and trailing whitespace
trim(t) == rtrim(ltrim(t))

\* validator.js escape(): the replacement of one character (the apostrophe,
\* backslash and backquote, which it also replaces, occur in no text here)
escapeChar(c) ==
  CASE c = "&" -> <<"&", "a", "m", "p", ";">>
    [] c = "<" -> <<"&", "l", "t", ";">>
    [] c = ">" -> <<"&", "g", "t", ";">>
    [] c = "\"" -> <<"&", "q", "u", "o", "t", ";">>
    [] c = "/" -> <<"&", "#", "x", "2", "F", ";">>
    [] OTHER   -> <<c>>

\* the concatenation of a sequence of sequences (joined by halves)
RECURSIVE Flatten(_)
Flatten(ss) ==
  IF Len(ss) = 0 THEN <<>>
  ELSE IF Len(ss) = 1 THEN ss[1]
  ELSE Flatten(SubSeq(ss, 1, Len(ss) \div 2))
         \o Flatten(SubSeq(ss, Len(ss) \div 2 + 1, Len(ss)))

escapeRun(r) ==
  IF Len(escapeChar(r.c)) = 1 THEN <<r>>
  ELSE Flatten([k \in 1..r.n |->
                  [i \in 1..Len(escapeChar(r.c)) |-> Run(escapeChar(r.c)[i], 1)]])

escape(t) == Flatten([i \in 1..Len(t) |-> escapeRun(t[i])])

TITLE_MAX == 200

CONTENT_MAX == 100000

\* isLength({ min: 1, max }) runs on the value as received, before trim/escape
isLength(t, min, max) == TextLen(t) >= min /\ TextLen(t) <= max

(* ------------------------------ posts table --------------------------- *)

\* A row of the posts table.  The table is a set of rows; the PRIMARY KEY
\* on id is enforced by the INSERT statement, not by the representation.
Row(id, secret, title, content) ==
  [id |-> id, secret |-> secret, title |-> title, content |-> content]

SQLITE_CONSTRAINT == "SQLITE_CONSTRAINT"

SQLITE_IOERR == "SQLITE_IOERR"

\* result of db.run / db.get: the table afterwards, the rows changed and
\* the error code the promise is rejected with (None when it resolves)
DbResult(tbl, changes, err) == [tbl |-> tbl, changes |-> changes, err |-> err]

\* an INSERT OR REPLACE: the row of the same id gives way
insert_orReplace(tbl, row) ==
  DbResult({ r \in tbl : r.id # row.id } \cup {row}, 1, None)

\* PostModel.create: INSERT INTO posts (id, secret, title, content, ...)
insert(tbl, row) ==
  IF \E r \in tbl : r.id = row.id
    THEN DbResult(tbl, 0, SQLITE_CONSTRAINT)
    ELSE DbResult(tbl \cup {row}, 1, None)

\* PostModel.findById: SELECT * FROM posts WHERE id = ?
\* (<<>> is null, <<row>> the row found)
findById(tbl, id) ==
  IF \E r \in tbl : r.id = id THEN << CHOOSE r \in tbl : r.id = id >> ELSE <<>>

\* PostModel.exists: SELECT 1 FROM posts WHERE id = ? LIMIT 1
exists(tbl, id) == \E r \in tbl : r.id = id

\* an UPDATE that also clears the secret of the row
update_rekeys(tbl, id, secret, title, content) ==
  LET hit == { r \in tbl : r.id = id /\ r.secret = secret }
  IN  DbResult((tbl \ hit) \cup
                 { [r EXCEPT !.title = title, !.content = content, !.secret = <<>>] :
                     r \in hit },
               Cardinality(hit), None)

\* an UPDATE interrupted after the first column
update_titleOnly(tbl, id, secret, title, content) ==
  LET hit == { r \in tbl : r.id = id /\ r.secret = secret }
  IN  DbResult((tbl \ hit) \cup { [r EXCEPT !.title = title] : r \in hit },
               Cardinality(hit), None)

\* an UPDATE that reports the rows it matched and writes nothing
update_lost(tbl, id, secret, title, content) ==
  DbResult(tbl, Cardinality({ r \in tbl : r.id = id /\ r.secret = secret }), None)

\* an UPDATE whose WHERE clause names the id alone
update_idOnly(tbl, id, secret, title, content) ==
  LET hit == { r \in tbl : r.id = id }
  IN  DbResult((tbl \ hit) \cup
                 { [r EXCEPT !.title = title, !.content = content] : r \in hit },
               Cardinality(hit), None)

\* PostModel.update: UPDATE posts SET title = ?, content = ? WHERE id = ? AND secret = ?
update(tbl, id, secret, title, content) ==
  LET hit == { r \in tbl : r.id = id /\ r.secret = secret }
  IN  DbResult((tbl \ hit) \cup
                 { [r EXCEPT !.title = title, !.content = content] : r \in hit },
               Cardinality(hit), None)

\* a DELETE that is rejected when no row has the id
delete_tellsMissing(tbl, id, secret) ==
  LET hit == { r \in tbl : r.id = id /\ r.secret = secret }
  IN  IF \E r \in tbl : r.id = id
        THEN DbResult(tbl \ hit, Cardinality(hit), None)
        ELSE DbResult(tbl, 0, "ENOENT")

\* a soft delete: the row is reported as removed and stays
delete_soft(tbl, id, secret) ==
  DbResult(tbl, Cardinality({ r \in tbl : r.id = id /\ r.secret = secret }), None)

\* PostModel.delete: DELETE FROM posts WHERE id = ? AND secret = ?
delete(tbl, id, secret) ==
  LET hit == { r \in tbl : r.id = id /\ r.secret = secret }
  IN  DbResult(tbl \ hit, Cardinality(hit), None)

(* ------------------------------ responses ----------------------------- *)

Response(status, body) == [status |-> status, body |-> body]

\* an Error object: name, message, statusCode (0 = undefined) and code
\* (None = undefined)
Err(name, message, statusCode, code) ==
  [name |-> name, message |-> message, statusCode |-> statusCode, code |-> code]

createError(message, statusCode) == Err("Error", message, statusCode, None)

\* the error a rejected sqlite3 statement carries
SqliteError(code) == Err("Error", code, 0, code)

\* a handler that passes every message and code on
hideDetail_never(env, statusCode) == FALSE

\* if (process.env.NODE_ENV === 'production' && statusCode >= 500)
hideDetail(env, statusCode) == env = "production" /\ statusCode >= 500

errorHandler(err, env) ==
  LET statusCode0 == IF err.statusCode = 0 THEN 500 ELSE err.statusCode
      message0    == IF err.message = None THEN "Internal Server Error" ELSE err.message
      errorCode0  == IF err.code = None THEN "INTERNAL_ERROR" ELSE err.code
      typed ==
        CASE err.name = "ValidationError" ->
               <<400, "Invalid request data", "VALIDATION_ERROR">>
          [] err.name # "ValidationError" /\ err.code = SQLITE_CONSTRAINT ->
               <<409, "Resource conflict", "RESOURCE_CONFLICT">>
          [] err.name # "ValidationError" /\ err.code = "ENOENT" ->
               <<404, "Resource not found", "RESOURCE_NOT_FOUND">>
          [] err.name # "ValidationError" /\ err.code = "MISSING_API_TOKEN_CONFIG" ->
               <<500, "Server configuration error", "MISSING_API_TOKEN_CONFIG">>
          [] err.name # "ValidationError" /\ err.code = "INVALID_API_TOKEN" ->
               <<401, "Invalid API token", "INVALID_API_TOKEN">>
          [] err.name # "ValidationError" /\ err.code = "MISSING_AUTHORIZATION" ->
               <<401, "Authorization header is required", "MISSING_AUTHORIZATION">>
          [] err.name # "ValidationError" /\ err.code = "INVALID_AUTHORIZATION_FORMAT" ->
               <<401, "Invalid Authorization header format", "INVALID_AUTHORIZATION_FORMAT">>
          [] OTHER -> <<statusCode0, message0, errorCode0>>
      hidden == hideDetail(env, typed[1])
  IN  Response(typed[1],
               [error |-> [message |-> IF hidden THEN "Internal Server Error" ELSE typed[2],
                           code    |-> IF hidden THEN "INTERNAL_ERROR" ELSE typed[3]]])

\* handleValidationErrors: the 400 answer for a non-empty list of errors
validationFailed(errors) ==
  Response(400, [success |-> FALSE,
                 error |-> [code |-> 400, message |-> "Validation failed",
                            details |-> errors]])

\* MarkdownRenderer.escapeHtml (the apostrophe occurs in no text here)
escapeHtmlChar(c) ==
  CASE c = "&" -> <<"&", "a", "m", "p", ";">>
    [] c = "<" -> <<"&", "l", "t", ";">>
    [] c = ">" -> <<"&", "g", "t", ";">>
    [] c = "\"" -> <<"&", "q", "u", "o", "t", ";">>
    [] OTHER   -> <<c>>

escapeHtmlRun(r) ==
  IF Len(escapeHtmlChar(r.c)) = 1 THEN <<r>>
  ELSE Flatten([k \in 1..r.n |->
                  [i \in 1..Len(escapeHtmlChar(r.c)) |-> Run(escapeHtmlChar(r.c)[i], 1)]])

escapeHtml(t) == Flatten([i \in 1..Len(t) |-> escapeHtmlRun(t[i])])

\* MarkdownRenderer.renderToHtml: the template filled with the escaped
\* title and the rendered content (markdown-it, kept symbolic)
renderToHtml(post) ==
  [title |-> escapeHtml(post.title), content |-> <<"md.render", post.content>>]

\* a JSON body that carries the whole row
postJson_wholeRow(post) ==
  [success |-> TRUE,
   data |-> [id |-> post.id, secret |-> post.secret, title |-> post.title,
             content |-> post.content]]

\* the JSON body of GET /:id
postJson(post) ==
  [success |-> TRUE,
   data |-> [id |-> post.id, title |-> post.title, content |-> post.content]]

(* --------------------------- request inputs --------------------------- *)

GenIds == { generate(d) : d \in Draws }

ShortId == Rep("a", ID_LENGTH - 1)

ConfusableId == Rep("a", ID_LENGTH - 1) \o <<"l">>

GenSecrets == { generateSecret(d[1], d[2]) : d \in SecretDraws }

\* shaped like a UUID, but of version 1
BadSecret == [generateSecret("3", "8") EXCEPT ![15] = "1"]

Body(title, content) == [title |-> title, content |-> content]

PlainBody == Body(<<Run("a", 1)>>, <<Run("c", 1)>>)

\* a title and a content the sanitizers change
MarkupBody == Body(<<Run(" ", 1), Run("<", 1)>>, <<Run("d", 1), Run(" ", 2)>>)

LongTitleBody == Body(<<Run("a", TITLE_MAX + 1)>>, <<Run("c", 1)>>)

\* a title within the limit that escape() makes four times as long
AngleTitleBody == Body(<<Run("<", 51)>>, <<Run("c", 1)>>)

LongContentBody == Body(<<Run("a", 1)>>, <<Run("c", CONTENT_MAX + 1)>>)

Header(value) == [present |-> TRUE, value |-> value]

NoHeader == [present |-> FALSE, value |-> <<>>]

Bearer == <<"B", "e", "a", "r", "e", "r">>

GoodToken == <<"t", "k">>

WrongToken == <<"t", "x">>

EnvToken(value) == [set |-> TRUE, value |-> value]

EnvUnset == [set |-> FALSE, value |-> <<>>]

GoodHeader == Header(Bearer \o <<" ">> \o GoodToken)

WrongHeader == Header(Bearer \o <<" ">> \o WrongToken)

JSON == "application/json"

HTML == "text/html"

IdA == generate(Rep(0, ID_LENGTH))

IdB == generate(Rep(1, ID_LENGTH))

SecretA == generateSecret("1", "8")

SecretB == generateSecret("2", "b")

\* the requests that clients send: every method with well-formed and with
\* malformed arguments, and with and without the service token
PostInputs ==
  { [body |-> PlainBody, hdr |-> GoodHeader],
    [body |-> MarkupBody, hdr |-> GoodHeader],
    [body |-> LongTitleBody, hdr |-> GoodHeader],
    [body |-> PlainBody, hdr |-> NoHeader],
    [body |-> AngleTitleBody, hdr |-> GoodHeader],
    [body |-> LongContentBody, hdr |-> GoodHeader] }

GetInputs ==
  { [id |-> IdA, accept |-> JSON, hdr |-> GoodHeader],
    [id |-> IdA, accept |-> HTML, hdr |-> GoodHeader],
    [id |-> IdB, accept |-> JSON, hdr |-> GoodHeader],
    [id |-> ShortId, accept |-> JSON, hdr |-> GoodHeader],
    [id |-> ConfusableId, accept |-> HTML, hdr |-> GoodHeader],
    [id |-> IdA, accept |-> JSON, hdr |-> WrongHeader] }

PutInputs ==
  { [id |-> IdA, secret |-> SecretA, body |-> PlainBody, hdr |-> GoodHeader],
    [id |-> IdA, secret |-> SecretA, body |-> MarkupBody, hdr |-> GoodHeader],
    [id |-> IdA, secret |-> SecretB, body |-> MarkupBody, hdr |-> GoodHeader],
    [id |-> IdB, secret |-> SecretA, body |-> PlainBody, hdr |-> GoodHeader],
    [id |-> IdB, secret |-> SecretB, body |-> MarkupBody, hdr |-> GoodHeader],
    [id |-> ShortId, secret |-> SecretA, body |-> PlainBody, hdr |-> GoodHeader],
    [id |-> ConfusableId, secret |-> SecretA, body |-> PlainBody, hdr |-> GoodHeader],
    [id |-> IdA, secret |-> BadSecret, body |-> PlainBody, hdr |-> GoodHeader],
    [id |-> IdA, secret |-> SecretA, body |-> LongTitleBody, hdr |-> GoodHeader],
    [id |-> IdA, secret |-> SecretA, body |-> MarkupBody, hdr |-> NoHeader] }

DeleteInputs ==
  { [id |-> IdA, secret |-> SecretA, hdr |-> GoodHeader],
    [id |-> IdA, secret |-> SecretB, hdr |-> GoodHeader],
    [id |-> IdB, secret |-> SecretA, hdr |-> GoodHeader],
    [id |-> IdB, secret |-> SecretB, hdr |-> GoodHeader],
    [id |-> ShortId, secret |-> SecretA, hdr |-> GoodHeader],
    [id |-> ConfusableId, secret |-> SecretA, hdr |-> GoodHeader],
    [id |-> IdA, secret |-> BadSecret, hdr |-> GoodHeader],
    [id |-> IdA, secret |-> SecretA, hdr |-> WrongHeader] }

(* ------------------------------ requests ------------------------------ *)

Reqs == 1..MaxInFlight

IdleReq ==
  [pc |-> "idle", method |-> None, id |-> <<>>, secret |-> <<>>,
   body |-> [title |-> <<>>, content |-> <<>>],
   title |-> <<>>, content |-> <<>>, accept |-> None, auth |-> NoHeader,
   attempts |-> 0, changes |-> 0, sent |-> <<>>,
   \* history of the request
   usedStore |-> FALSE, handlerRan |-> FALSE, applied |-> FALSE, noMatch |-> FALSE,
   rowExisted |-> FALSE, afterAck |-> FALSE, expected |-> <<>>,
   failed |-> FALSE,
   \* history of a create: the id whose existence check answered false,
   \* whether the INSERT was issued, whether generateUnique ended in an error
   freeId |-> <<>>, inserted |-> FALSE, noId |-> FALSE,
   \* history of a read: the body submitted by the create of its id, when
   \* that create was answered before the read began and no PUT or DELETE
   \* for the id ran since
   created |-> <<>>,
   \* history: the request began after the 204 of the DELETE that removed the
   \* row of its id (for PUT/DELETE: and presents the secret of that row), and
   \* no create has inserted the id since
   afterDelete |-> FALSE,
   \* history of a PUT/DELETE: its pair matched a row when it arrived
   matchedAtStart |-> FALSE]

\* a finished request is retired before anything else happens
NoneDone == \A q \in Reqs : req[q].pc # "done"

FirstIdle(r) ==
  /\ NoneDone
  /\ req[r].pc = "idle"
  /\ \A q \in Reqs : q < r => req[q].pc # "idle"

Started(method, id, secret, body, accept, hdr) ==
  [IdleReq EXCEPT !.method = method, !.id = id, !.secret = secret,
                  !.body = body,
                  !.accept = accept, !.auth = hdr]

\* the request ends with one response
Finished(q, resp) == [q EXCEPT !.pc = "done", !.sent = Append(q.sent, resp)]

Thrown(q, err) == Finished(q, errorHandler(err, nodeEnv))

\* a rejected storage call that is tried again
StorageFailure_retried(q) == [q EXCEPT !.usedStore = TRUE, !.failed = TRUE]

\* a storage call is rejected: the error reaches the error handler
StorageFailure(q) ==
  Thrown([q EXCEPT !.usedStore = TRUE, !.failed = TRUE], SqliteError(SQLITE_IOERR))

Matches(tbl, id, secret) == \E row \in tbl : row.id = id /\ row.secret = secret

\* one entry of errors.array(): the field, the message and the value received
ValidationError(param, msg, value) == [param |-> param, msg |-> msg, value |-> value]

titleErrors(body) ==
  IF isLength(body.title, 1, TITLE_MAX) THEN <<>>
  ELSE <<ValidationError("title", "Title must be between 1 and 200 characters",
                         body.title)>>

contentErrors(body) ==
  IF isLength(body.content, 1, CONTENT_MAX) THEN <<>>
  ELSE <<ValidationError("content", "Content must be between 1 and 100,000 characters",
                         body.content)>>

idErrors(id) ==
  IF Len(id) = ID_LENGTH THEN <<>>
  ELSE <<ValidationError("id", "Invalid post ID format", id)>>

secretErrors(secret) ==
  IF isUUID4(secret) THEN <<>>
  ELSE <<ValidationError("secret", "Invalid secret format", secret)>>

createPostValidation(body) == titleErrors(body) \o contentErrors(body)

updatePostValidation(id, secret, body) ==
  idErrors(id) \o secretErrors(secret) \o titleErrors(body) \o contentErrors(body)

deletePostValidation(id, secret) == idErrors(id) \o secretErrors(secret)

getPostValidation(id) == idErrors(id)

\* the body after the sanitizers of the validation chain
Sanitized(body) == Body(escape(trim(body.title)), trim(body.content))

(* ------------------------- API token middleware ----------------------- *)

\* req.auth: undefined, or { tokenValid, tokenHash }
NoAuth == [defined |-> FALSE, tokenValid |-> FALSE, tokenHash |-> <<>>]

AuthInfo(tokenValid, tokenHash) ==
  [defined |-> TRUE, tokenValid |-> tokenValid, tokenHash |-> tokenHash]

\* what one call of a middleware did: the responses it sent, how often it
\* called next() and the req.auth it left
MwResult(sent, nexts, auth) == [sent |-> sent, nexts |-> nexts, auth |-> auth]

AuthFailure(status, message, code) ==
  MwResult(<<Response(status, [error |-> [message |-> message, code |-> code]])>>,
           0, NoAuth)

\* the first 8 hex digits of the SHA-256 of the token, kept symbolic
createTokenHash(token) == <<"sha256">> \o token

\* number of whitespace characters of v from position i on
RECURSIVE wsRun(_, _)
wsRun(v, i) ==
  IF i <= Len(v) /\ v[i] \in {" ", "\t"} THEN 1 + wsRun(v, i + 1) ELSE 0

\* authHeader.match(/^Bearer\s+(.+)$/): \s+ takes the whole whitespace run,
\* and gives one character back when nothing follows the run
tokenMatch(v) ==
  LET k == wsRun(v, Len(Bearer) + 1)
      j == IF Len(Bearer) + k < Len(v) THEN k ELSE k - 1
  IN  IF Len(v) > Len(Bearer) /\ SubSeq(v, 1, Len(Bearer)) = Bearer /\ j >= 1
        THEN [ok |-> TRUE, token |-> SubSeq(v, Len(Bearer) + j + 1, Len(v))]
        ELSE [ok |-> FALSE, token |-> <<>>]

\* Buffer.from(s, "utf8") of an ASCII string: the character codes
charCode(c) ==
  CASE c = " " -> 32 [] c = "\t" -> 9 [] c = "B" -> 66 [] c = "a" -> 97
    [] c = "b" -> 98 [] c = "c" -> 99 [] c = "e" -> 101 [] c = "i" -> 105
    [] c = "k" -> 107 [] c = "r" -> 114 [] c = "s" -> 115 [] c = "t" -> 116
    [] c = "x" -> 120

bufferFrom(s) == [i \in 1..Len(s) |-> charCode(s[i])]

Max(a, b) == IF a >= b THEN a ELSE b

\* the comparison loop: every position up to the longer length, missing
\* bytes read as 0; i counts from 0 as in the code
RECURSIVE compareFrom(_, _, _, _)
compareFrom(provided, expected, i, isValid) ==
  IF i < Max(Len(provided), Len(expected))
    THEN LET a == IF i < Len(provided) THEN provided[i + 1] ELSE 0
             b == IF i < Len(expected) THEN expected[i + 1] ELSE 0
         IN  compareFrom(provided, expected, i + 1, isValid /\ a = b)
    ELSE isValid

\* a comparison over the positions the two tokens share
tokensEqual_prefix(providedToken, configured) ==
  \A i \in 1..Len(providedToken) :
    i <= Len(configured) => providedToken[i] = configured[i]

tokensEqual(providedToken, configured) ==
  compareFrom(bufferFrom(providedToken), bufferFrom(configured), 0,
              Len(bufferFrom(providedToken)) = Len(bufferFrom(configured)))

\* a ^ b and a | b on non-negative integers, bit by bit
RECURSIVE bitXor(_, _)
bitXor(a, b) ==
  IF a = 0 /\ b = 0 THEN 0
    ELSE (((a % 2) + (b % 2)) % 2) + 2 * bitXor(a \div 2, b \div 2)

RECURSIVE bitOr(_, _)
bitOr(a, b) ==
  IF a = 0 /\ b = 0 THEN 0
    ELSE (IF a % 2 = 1 \/ b % 2 = 1 THEN 1 ELSE 0) + 2 * bitOr(a \div 2, b \div 2)

\* what a comparison did: its answer and the number of byte comparisons
\* (evaluations of a === b, or of a ^ b) it performed
Compared(result, compared) == [result |-> result, compared |-> compared]

\* the loop of requireApiToken with its comparisons counted: in
\* `isValid = isValid && (a === b)` the right operand is evaluated only
\* while isValid is still true
RECURSIVE countFrom(_, _, _, _, _)
countFrom(provided, expected, i, isValid, n) ==
  IF i < Max(Len(provided), Len(expected))
    THEN LET a == IF i < Len(provided) THEN provided[i + 1] ELSE 0
             b == IF i < Len(expected) THEN expected[i + 1] ELSE 0
         IN  countFrom(provided, expected, i + 1, isValid /\ a = b,
                       IF isValid THEN n + 1 ELSE n)
    ELSE Compared(isValid, n)

\* lines 76-87 of requireApiToken for a provided and a configured token
compareTokens(providedToken, configured) ==
  countFrom(bufferFrom(providedToken), bufferFrom(configured), 0,
            Len(bufferFrom(providedToken)) = Len(bufferFrom(configured)), 0)

\* the loop of validateApiToken, over the length of the provided buffer
RECURSIVE validateFrom(_, _, _, _, _)
validateFrom(provided, expected, i, isValid, n) ==
  IF i < Len(provided)
    THEN validateFrom(provided, expected, i + 1,
                      isValid /\ provided[i + 1] = expected[i + 1],
                      IF isValid THEN n + 1 ELSE n)
    ELSE Compared(isValid, n)

\* a validateApiToken that accepts a token the configured one starts with
validateApiToken_prefix(env, token) ==
  IF ~env.set \/ env.value = <<>> \/ token = <<>> THEN Compared(FALSE, 0)
  ELSE IF Len(token) > Len(env.value) THEN Compared(FALSE, 0)
  ELSE validateFrom(bufferFrom(token), bufferFrom(env.value), 0, TRUE, 0)

validateApiToken(env, token) ==
  IF ~env.set \/ env.value = <<>> \/ token = <<>> THEN Compared(FALSE, 0)
  ELSE IF Len(bufferFrom(token)) # Len(bufferFrom(env.value)) THEN Compared(FALSE, 0)
  ELSE validateFrom(bufferFrom(token), bufferFrom(env.value), 0, TRUE, 0)

\* the loop of IDGenerator.compareSecrets: result |= a ^ b at every position
RECURSIVE secretsFrom(_, _, _, _, _)
secretsFrom(provided, stored, i, result, n) ==
  IF i < Len(provided)
    THEN secretsFrom(provided, stored, i + 1,
                     bitOr(result, bitXor(charCode(provided[i + 1]), charCode(stored[i + 1]))),
                     n + 1)
    ELSE Compared(result = 0, n)

compareSecrets(provided, stored) ==
  IF Len(provided) # Len(stored) THEN Compared(FALSE, 0)
    ELSE secretsFrom(provided, stored, 0, 0, 0)

requireApiToken(env, hdr) ==
  IF ~env.set \/ env.value = <<>>
    THEN AuthFailure(500, "Server configuration error", "MISSING_API_TOKEN_CONFIG")
  ELSE IF ~hdr.present \/ hdr.value = <<>>
    THEN AuthFailure(401, "Authorization header is required", "MISSING_AUTHORIZATION")
  ELSE IF ~tokenMatch(hdr.value).ok
    THEN AuthFailure(401, "Invalid Authorization header format. Expected: Bearer <token>",
                     "INVALID_AUTHORIZATION_FORMAT")
  ELSE IF ~tokensEqual(tokenMatch(hdr.value).token, env.value)
    THEN AuthFailure(401, "Invalid API token", "INVALID_API_TOKEN")
  ELSE MwResult(<<>>, 1, AuthInfo(TRUE, createTokenHash(tokenMatch(hdr.value).token)))

optionalApiToken(env, hdr) ==
  IF ~hdr.present \/ hdr.value = <<>>
    THEN MwResult(<<>>, 1, AuthInfo(FALSE, <<>>))
    ELSE requireApiToken(env, hdr)

(* ------------------------------ the plugin ---------------------------- *)

\* the notes of the vault (TFile objects) and the paths they can have
Files == {"f1", "f2"}

Paths == {"a.md", "b.md", "c.md"}

OpSlots == 1..MaxOps

\* data.posts[path]: undefined, or { id, secret }
NoPost == <<>>

PostEntry(id, secret) == << [id |-> id, secret |-> secret] >>

\* an operation of the plugin: where it stands, the file it was called
\* with, the entry it read at its start, the request it sent, the answer of
\* the server, and the error it threw
IdleOp == [pc |-> "idle", kind |-> None, file |-> None, post |-> NoPost,
           request |-> [method |-> None, id |-> <<>>, secret |-> <<>>],
           resp |-> [ok |-> FALSE, id |-> <<>>, secret |-> <<>>],
           thrown |-> None]

\* the plugin before it is loaded
IdleClient ==
  [posts |-> [p \in Paths |-> NoPost], saved |-> [p \in Paths |-> NoPost],
   saves |-> 0, path |-> [f \in Files |-> "a.md"],
   present |-> [f \in Files |-> FALSE],
   ops |-> [o \in OpSlots |-> IdleOp], events |-> 0]

\* getUrl(file) !== null
getUrl(c, f) == c.posts[c.path[f]] # NoPost

\* await saveData(data): the posts map as it is now goes to disk
saveData(c) == [c EXCEPT !.saved = c.posts, !.saves = @ + 1]

\* handleNoteRename(file, oldPath), file.path being filePath
handleNoteRename(c, filePath, oldPath) ==
  IF c.posts[oldPath] # NoPost
    THEN LET moved == [c EXCEPT !.posts[filePath] = c.posts[oldPath]]
         IN  saveData([moved EXCEPT !.posts[oldPath] = NoPost])
    ELSE c

\* handleNoteDelete(file)
handleNoteDelete(c, filePath) ==
  IF c.posts[filePath] # NoPost
    THEN saveData([c EXCEPT !.posts[filePath] = NoPost])
    ELSE c

\* the title and the content of every note
NoteBody == Sanitized(PlainBody)

(* ------------------------------ handlers ------------------------------ *)

NoBody == [empty |-> TRUE]

EmptyBody == Body(<<>>, <<>>)

\* history: the intended representation of id after a write that matched
Intend(g, id, rep) ==
  IF id \in DOMAIN g.intended
    THEN [g EXCEPT !.intended[id] = rep]
    ELSE g

Acked(g, id) == [g EXCEPT !.acked = g.acked \cup {id}]

\* history: the body submitted by the create of id that was answered 201
Created(g, id, body) ==
  IF id \in DOMAIN g.submitted THEN [g EXCEPT !.submitted[id] = <<body>>] ELSE g

\* history: a PUT or DELETE statement for id has run since
Touched(g, id) ==
  IF id \in DOMAIN g.submitted THEN [g EXCEPT !.submitted[id] = <<>>] ELSE g

\* history: the DELETE statement removed the row of id that had this secret
Removed(g, id, secret) ==
  IF id \in DOMAIN g.deleted
    THEN [g EXCEPT !.deleted[id] = <<[secret |-> secret, acked |-> FALSE]>>]
    ELSE g

\* history: the removal of the row of id has been answered 204
RemovalAcked(g, id) ==
  IF id \in DOMAIN g.deleted
    THEN IF g.deleted[id] # <<>> THEN [g EXCEPT !.deleted[id][1].acked = TRUE] ELSE g
    ELSE g

\* history: a create has inserted a row with this id
Inserted(g, id) ==
  IF id \in DOMAIN g.deleted THEN [g EXCEPT !.deleted[id] = <<>>] ELSE g

\* history: the row of id was removed, the 204 sent, and no row of this id
\* inserted since
Gone(g, id) ==
  IF id \in DOMAIN g.deleted
    THEN IF g.deleted[id] # <<>> THEN g.deleted[id][1].acked ELSE FALSE
    ELSE FALSE

\* history: Gone, and the secret is the one the removed row had
GoneWith(g, id, secret) ==
  IF Gone(g, id) THEN g.deleted[id][1].secret = secret ELSE FALSE

\* history: how a PUT/DELETE whose statement matched no row was answered
Rejected(g, q) ==
  IF q.method \in {"PUT", "DELETE"} /\ q.usedStore /\ q.noMatch
    THEN [g EXCEPT !.rejected = g.rejected \cup
            {[method |-> q.method, rowExisted |-> q.rowExisted,
              failed |-> q.failed, sent |-> q.sent]}]
    ELSE g

\* POST /: validation, then the first candidate id of generateUnique
Post(r, body, hdr) ==
  /\ served < MaxRequests
  /\ FirstIdle(r)
  /\ served' = served + 1
  /\ LET q == Started("POST", <<>>, <<>>, body, None, hdr)
         errors == createPostValidation(body)
     IN  IF errors # <<>>
           THEN req' = [req EXCEPT ![r] = Finished(q, validationFailed(errors))]
           ELSE \E d \in Draws :
                  req' = [req EXCEPT ![r] =
                            [q EXCEPT !.pc = "exists", !.handlerRan = TRUE,
                                      !.title = Sanitized(body).title,
                                      !.content = Sanitized(body).content,
                                      !.id = generate(d)]]
  /\ UNCHANGED <<posts, ghost, apiToken, nodeEnv, mw, gen, client>>

\* a generateUnique that hands out its last candidate when all collided
exhausted_lastCandidate(q) == [q EXCEPT !.pc = "insert", !.attempts = @ + 1]

\* generateUnique: the throw after the loop
exhausted(q) ==
  Thrown([q EXCEPT !.attempts = @ + 1, !.noId = TRUE],
         Err("Error", "Failed to generate unique ID", 0, None))

\* generateUnique: one checkExists(id) and what the loop does with its answer
PostExists(r) ==
  /\ NoneDone
  /\ req[r].pc = "exists"
  /\ LET q == [req[r] EXCEPT !.usedStore = TRUE]
     IN  \/ req' = [req EXCEPT ![r] = StorageFailure([req[r] EXCEPT !.noId = TRUE])]
         \/ /\ ~exists(posts, q.id)
            /\ \E sd \in SecretDraws :
                 req' = [req EXCEPT ![r] =
                           [q EXCEPT !.pc = "insert", !.attempts = 0,
                                     !.freeId = q.id,
                                     !.secret = generateSecret(sd[1], sd[2])]]
         \/ /\ exists(posts, q.id)
            /\ q.attempts + 1 < maxAttempts
            /\ \E d \in Draws :
                 req' = [req EXCEPT ![r] =
                           [q EXCEPT !.attempts = @ + 1, !.id = generate(d)]]
         \/ /\ exists(posts, q.id)
            /\ q.attempts + 1 >= maxAttempts
            /\ req' = [req EXCEPT ![r] = exhausted(q)]
  /\ UNCHANGED <<posts, served, ghost, apiToken, nodeEnv, mw, gen, client>>

\* PostModel.create: the INSERT
PostInsert(r) ==
  /\ NoneDone
  /\ req[r].pc = "insert"
  /\ LET q == [req[r] EXCEPT !.usedStore = TRUE, !.inserted = TRUE,
                             !.rowExisted = \E row \in posts : row.id = req[r].id]
         res == insert(posts, Row(q.id, q.secret, q.title, q.content))
     IN  \/ /\ req' = [req EXCEPT ![r] = StorageFailure(q)]
            /\ UNCHANGED <<posts, ghost, client>>
         \/ /\ res.err # None
            /\ req' = [req EXCEPT ![r] =
                         Thrown([q EXCEPT !.applied = (res.tbl # posts)],
                                SqliteError(res.err))]
            /\ posts' = res.tbl
            /\ UNCHANGED ghost
         \/ /\ res.err = None
            /\ req' = [req EXCEPT ![r] =
                         [q EXCEPT !.pc = "findCreated", !.applied = (res.tbl # posts)]]
            /\ posts' = res.tbl
            /\ ghost' = IF exists(posts, q.id) THEN ghost
                        ELSE Inserted(Intend(ghost, q.id, <<Body(q.title, q.content)>>),
                                      q.id)
  /\ UNCHANGED <<served, apiToken, nodeEnv, mw, gen, client>>

\* PostModel.create: the read back of the row, then the 201 answer
PostFetch(r) ==
  /\ NoneDone
  /\ req[r].pc = "findCreated"
  /\ LET q == [req[r] EXCEPT !.usedStore = TRUE]
     IN  \/ /\ req' = [req EXCEPT ![r] = StorageFailure(req[r])]
            /\ UNCHANGED ghost
         \/ /\ findById(posts, q.id) = <<>>
            /\ req' = [req EXCEPT ![r] =
                         Thrown(q, Err("Error", "Failed to create post", 0, None))]
            /\ UNCHANGED ghost
         \/ /\ findById(posts, q.id) # <<>>
            /\ req' = [req EXCEPT ![r] =
                         Finished(q, Response(201, [id |-> q.id, secret |-> q.secret]))]
            /\ ghost' = Created(ghost, q.id, q.body)
  /\ UNCHANGED <<posts, served, apiToken, nodeEnv, mw, gen, client>>

\* GET /:id up to the query
Get(r, id, accept, hdr) ==
  /\ served < MaxRequests
  /\ FirstIdle(r)
  /\ served' = served + 1
  /\ LET q == [Started("GET", id, <<>>, EmptyBody, accept, hdr)
                 EXCEPT !.afterAck = (id \in ghost.acked),
                        !.afterDelete = Gone(ghost, id),
                        !.created = IF id \in DOMAIN ghost.submitted
                                      THEN ghost.submitted[id] ELSE <<>>]
         errors == getPostValidation(id)
     IN  req' = [req EXCEPT ![r] =
           IF errors # <<>> THEN Finished(q, validationFailed(errors))
           ELSE IF ~isValidFormat(id)
             THEN Thrown([q EXCEPT !.handlerRan = TRUE],
                         createError("Invalid post ID format", 400))
           ELSE [q EXCEPT !.pc = "find", !.handlerRan = TRUE]]
  /\ UNCHANGED <<posts, ghost, apiToken, nodeEnv, mw, gen, client>>

\* the answer of GET /:id for the result of findById
getOutcome(post, accept, env) ==
  IF post = <<>> THEN errorHandler(createError("Post not found", 404), env)
  ELSE IF accept = JSON THEN Response(200, postJson(post[1]))
  ELSE Response(200, [html |-> renderToHtml(post[1])])

\* PostModel.findById and the answer of GET /:id
GetFind(r) ==
  /\ NoneDone
  /\ req[r].pc = "find"
  /\ LET q == [req[r] EXCEPT !.usedStore = TRUE,
                             !.afterDelete = @ /\ Gone(ghost, req[r].id),
                             !.created = IF req[r].id \in DOMAIN ghost.submitted
                                           THEN IF ghost.submitted[req[r].id] = @
                                                  THEN @ ELSE <<>>
                                           ELSE <<>>,
                             !.expected = IF req[r].id \in DOMAIN ghost.intended
                                            THEN ghost.intended[req[r].id] ELSE <<>>]
         post == findById(posts, q.id)
     IN  \/ req' = [req EXCEPT ![r] = StorageFailure(req[r])]
         \/ req' = [req EXCEPT ![r] = Finished(q, getOutcome(post, q.accept, nodeEnv))]
  /\ UNCHANGED <<posts, served, ghost, apiToken, nodeEnv, mw, gen, client>>

\* PUT /:id up to the UPDATE
Put(r, id, secret, body, hdr) ==
  /\ served < MaxRequests
  /\ FirstIdle(r)
  /\ served' = served + 1
  /\ LET q == [Started("PUT", id, secret, body, None, hdr)
                 EXCEPT !.noMatch = ~Matches(posts, id, secret),
                        !.matchedAtStart = Matches(posts, id, secret),
                        !.afterDelete = GoneWith(ghost, id, secret)]
         errors == updatePostValidation(id, secret, body)
     IN  req' = [req EXCEPT ![r] =
           IF errors # <<>> THEN Finished(q, validationFailed(errors))
           ELSE IF ~isValidFormat(id)
             THEN Thrown([q EXCEPT !.handlerRan = TRUE],
                         createError("Invalid post ID format", 400))
           ELSE IF ~isValidSecret(secret)
             THEN Thrown([q EXCEPT !.handlerRan = TRUE],
                         createError("Invalid secret format", 400))
           ELSE [q EXCEPT !.pc = "update", !.handlerRan = TRUE,
                          !.title = Sanitized(body).title,
                          !.content = Sanitized(body).content]]
  /\ UNCHANGED <<posts, ghost, apiToken, nodeEnv, mw, gen, client>>

\* PostModel.update: the UPDATE
PutUpdate(r) ==
  /\ NoneDone
  /\ req[r].pc = "update"
  /\ LET q == [req[r] EXCEPT !.usedStore = TRUE,
                             !.afterDelete = @ /\ Gone(ghost, req[r].id),
                             !.noMatch = ~Matches(posts, req[r].id, req[r].secret),
                             !.rowExisted = \E row \in posts : row.id = req[r].id]
         res == update(posts, q.id, q.secret, q.title, q.content)
     IN  \/ /\ req' = [req EXCEPT ![r] = StorageFailure(q)]
            /\ UNCHANGED <<posts, ghost, client>>
         \/ /\ res.err # None
            /\ req' = [req EXCEPT ![r] =
                         Thrown([q EXCEPT !.applied = (res.tbl # posts)],
                                SqliteError(res.err))]
            /\ posts' = res.tbl
            /\ UNCHANGED ghost
         \/ /\ res.err = None
            /\ req' = [req EXCEPT ![r] =
                         [q EXCEPT !.pc = "putAck", !.changes = res.changes,
                                   !.applied = (res.tbl # posts)]]
            /\ posts' = res.tbl
            /\ ghost' = Touched(IF Matches(posts, q.id, q.secret)
                                  THEN Intend(ghost, q.id, <<Body(q.title, q.content)>>)
                                  ELSE ghost, q.id)
  /\ UNCHANGED <<served, apiToken, nodeEnv, mw, gen, client>>

\* the answer of PUT /:id
PutRespond(r) ==
  /\ NoneDone
  /\ req[r].pc = "putAck"
  /\ \/ /\ req[r].changes = 0
        /\ req' = [req EXCEPT ![r] =
                     Thrown(req[r], createError("Post not found or invalid secret", 401))]
        /\ UNCHANGED ghost
     \/ /\ req[r].changes # 0
        /\ req' = [req EXCEPT ![r] = Finished(req[r], Response(204, NoBody))]
        /\ ghost' = Acked(ghost, req[r].id)
  /\ UNCHANGED <<posts, served, apiToken, nodeEnv, mw, gen, client>>

\* DELETE /:id up to the DELETE statement
Delete(r, id, secret, hdr) ==
  /\ served < MaxRequests
  /\ FirstIdle(r)
  /\ served' = served + 1
  /\ LET q == [Started("DELETE", id, secret, EmptyBody, None, hdr)
                 EXCEPT !.noMatch = ~Matches(posts, id, secret),
                        !.matchedAtStart = Matches(posts, id, secret),
                        !.afterDelete = GoneWith(ghost, id, secret)]
         errors == deletePostValidation(id, secret)
     IN  req' = [req EXCEPT ![r] =
           IF errors # <<>> THEN Finished(q, validationFailed(errors))
           ELSE IF ~isValidFormat(id)
             THEN Thrown([q EXCEPT !.handlerRan = TRUE],
                         createError("Invalid post ID format", 400))
           ELSE IF ~isValidSecret(secret)
             THEN Thrown([q EXCEPT !.handlerRan = TRUE],
                         createError("Invalid secret format", 400))
           ELSE [q EXCEPT !.pc = "delete", !.handlerRan = TRUE]]
  /\ UNCHANGED <<posts, ghost, apiToken, nodeEnv, mw, gen, client>>

\* PostModel.delete: the DELETE statement
DeleteRun(r) ==
  /\ NoneDone
  /\ req[r].pc = "delete"
  /\ LET q == [req[r] EXCEPT !.usedStore = TRUE,
                             !.afterDelete = @ /\ Gone(ghost, req[r].id),
                             !.noMatch = ~Matches(posts, req[r].id, req[r].secret),
                             !.rowExisted = \E row \in posts : row.id = req[r].id]
         res == delete(posts, q.id, q.secret)
     IN  \/ /\ req' = [req EXCEPT ![r] = StorageFailure(q)]
            /\ UNCHANGED <<posts, ghost, client>>
         \/ /\ res.err # None
            /\ req' = [req EXCEPT ![r] =
                         Thrown([q EXCEPT !.applied = (res.tbl # posts)],
                                SqliteError(res.err))]
            /\ posts' = res.tbl
            /\ UNCHANGED ghost
         \/ /\ res.err = None
            /\ req' = [req EXCEPT ![r] =
                         [q EXCEPT !.pc = "delAck", !.changes = res.changes,
                                   !.applied = (res.tbl # posts)]]
            /\ posts' = res.tbl
            /\ ghost' = Touched(IF Matches(posts, q.id, q.secret)
                                  THEN Removed(Intend(ghost, q.id, <<>>), q.id, q.secret)
                                  ELSE ghost, q.id)
  /\ UNCHANGED <<served, apiToken, nodeEnv, mw, gen, client>>

\* the answer of DELETE /:id
DeleteRespond(r) ==
  /\ NoneDone
  /\ req[r].pc = "delAck"
  /\ \/ /\ req[r].changes = 0
        /\ req' = [req EXCEPT ![r] =
                     Thrown(req[r], createError("Post not found or invalid secret", 401))]
        /\ UNCHANGED ghost
     \/ /\ req[r].changes # 0
        /\ req' = [req EXCEPT ![r] = Finished(req[r], Response(204, NoBody))]
        /\ ghost' = RemovalAcked(Acked(ghost, req[r].id), req[r].id)
  /\ UNCHANGED <<posts, served, apiToken, nodeEnv, mw, gen, client>>

\* the connection of a finished request is closed and its slot is free again
Retire(r) ==
  /\ req[r].pc = "done"
  /\ req' = [req EXCEPT ![r] = IdleReq]
  /\ ghost' = Rejected(ghost, req[r])
  /\ UNCHANGED <<posts, served, apiToken, nodeEnv, mw, gen, client>>

\* generateUnique not called: maxAttempts, attempts, the candidate id, the
\* checkExists calls made (argument and answer), the id returned, the error
\* thrown, and in valid the answer of isValidFormat
IdleGen == [pc |-> "off", max |-> 0, attempts |-> 0, id |-> <<>>, calls |-> <<>>,
            result |-> <<>>, error |-> None, valid |-> FALSE, n |-> 0]

IdleMw == [pc |-> "off", fn |-> None, header |-> NoHeader,
           out |-> MwResult(<<>>, 0, NoAuth), calls |-> 0]

RowA == Row(IdA, SecretA, Sanitized(PlainBody).title, Sanitized(PlainBody).content)

RowB == Row(IdB, SecretB, Sanitized(MarkupBody).title, Sanitized(MarkupBody).content)

\* the database file outlives the process: the table the server starts
\* with holds the posts created by earlier runs
InitialTables == { {}, {RowA}, {RowA, RowB} }

Init ==
  /\ posts \in InitialTables
  /\ req = [r \in Reqs |-> IdleReq]
  /\ served = 0
  /\ ghost = [intended |-> [i \in GenIds |->
                              IF \E row \in posts : row.id = i
                                THEN LET row == CHOOSE row \in posts : row.id = i
                                     IN  <<Body(row.title, row.content)>>
                                ELSE <<>>],
              acked |-> {}, rejected |-> {},
              submitted |-> [i \in GenIds |-> <<>>],
              deleted |-> [i \in GenIds |-> <<>>]]
  /\ apiToken = EnvToken(GoodToken)
  /\ nodeEnv = "production"
  /\ mw = IdleMw
  /\ gen = IdleGen
  /\ client = IdleClient

Next ==
  \E r \in Reqs :
    \/ \E in \in PostInputs : Post(r, in.body, in.hdr)
    \/ PostExists(r)
    \/ PostInsert(r)
    \/ PostFetch(r)
    \/ \E in \in GetInputs : Get(r, in.id, in.accept, in.hdr)
    \/ GetFind(r)
    \/ \E in \in PutInputs : Put(r, in.id, in.secret, in.body, in.hdr)
    \/ PutUpdate(r)
    \/ PutRespond(r)
    \/ \E in \in DeleteInputs : Delete(r, in.id, in.secret, in.hdr)
    \/ DeleteRun(r)
    \/ DeleteRespond(r)
    \/ Retire(r)

Spec == Init /\ [][Next]_vars

(* ----------------- the authentication functions alone ----------------- *)

\* the values process.env.API_TOKEN can have
EnvTokens ==
  { EnvUnset, EnvToken(<<>>), EnvToken(GoodToken), EnvToken(<<"t">>),
    EnvToken(GoodToken \o <<"k">>) }

\* the Authorization headers a request can carry
AuthHeaders ==
  { NoHeader, Header(<<>>), Header(Bearer), Header(Bearer \o <<" ">>),
    Header(Bearer \o <<" ", " ">>), Header(Bearer \o GoodToken),
    Header(<<"b", "e", "a", "r", "e", "r", " ">> \o GoodToken),
    Header(<<"B", "a", "s", "i", "c", " ">> \o GoodToken),
    Header(<<" ">> \o Bearer \o <<" ">> \o GoodToken),
    GoodHeader, WrongHeader,
    Header(Bearer \o <<" ", "\t">> \o GoodToken),
    Header(Bearer \o <<" ", "t">>),
    Header(Bearer \o <<" ">> \o GoodToken \o <<"k">>),
    Header(Bearer \o <<" ">> \o GoodToken \o <<" ">>) }

AuthFunctions == {"requireApiToken", "optionalApiToken"}

\* a request with the header hdr arrives at the middleware
Arrive(hdr) ==
  /\ mw.pc \in {"called"}
  /\ mw.calls < MaxCalls
  /\ mw' = [IdleMw EXCEPT !.pc = "ready", !.header = hdr, !.calls = mw.calls + 1]
  /\ UNCHANGED <<posts, req, served, ghost, apiToken, nodeEnv, gen, client>>

CallRequireApiToken ==
  /\ mw.pc = "ready"
  /\ mw' = [mw EXCEPT !.pc = "called", !.fn = "requireApiToken",
                      !.out = requireApiToken(apiToken, mw.header)]
  /\ UNCHANGED <<posts, req, served, ghost, apiToken, nodeEnv, gen, client>>

CallOptionalApiToken ==
  /\ mw.pc = "ready"
  /\ mw' = [mw EXCEPT !.pc = "called", !.fn = "optionalApiToken",
                      !.out = optionalApiToken(apiToken, mw.header)]
  /\ UNCHANGED <<posts, req, served, ghost, apiToken, nodeEnv, gen, client>>

InitAuth ==
  /\ posts = {}
  /\ req = [r \in Reqs |-> IdleReq]
  /\ served = 0
  /\ ghost = [intended |-> [i \in GenIds |-> <<>>], acked |-> {},
              rejected |-> {}, submitted |-> [i \in GenIds |-> <<>>],
              deleted |-> [i \in GenIds |-> <<>>]]
  /\ apiToken \in EnvTokens
  /\ nodeEnv = "production"
  /\ \E hdr \in AuthHeaders :
       mw = [IdleMw EXCEPT !.pc = "ready", !.header = hdr, !.calls = 1]
  /\ gen = IdleGen
  /\ client = IdleClient

NextAuth ==
  \/ \E hdr \in AuthHeaders : Arrive(hdr)
  \/ CallRequireApiToken
  \/ CallOptionalApiToken

SpecAuth == InitAuth /\ [][NextAuth]_vars

(* -------------------------- the id generator alone -------------------- *)

\* the values the caller passes for maxAttempts (the last one is the default)
MaxAttemptsValues == {0, 1, 2, 3, maxAttempts}

GenerationFailed == "Failed to generate unique ID"

CheckRejected == "checkExists rejected"

\* one call of checkExists: its argument and how its promise settled
ExistsCall(id, answer, rejected) == [id |-> id, exists |-> answer, rejected |-> rejected]

\* a loop condition that admits one more round
loopContinues_inclusive(attempts, max) == attempts <= max

\* while (attempts < maxAttempts)
loopContinues(attempts, max) == attempts < max

\* a loop body that returns the id found to exist
onAnswer_inverted(g, answer) ==
  IF answer
    THEN [g EXCEPT !.pc = "returned", !.result = g.id]
    ELSE [g EXCEPT !.pc = "loop", !.attempts = @ + 1]

\* the loop body after `await checkExists(id)` resolved
onAnswer(g, answer) ==
  IF ~answer
    THEN [g EXCEPT !.pc = "returned", !.result = g.id]
    ELSE [g EXCEPT !.pc = "loop", !.attempts = @ + 1]

GenFinished == gen.pc \in {"returned", "thrown"}

\* generateUnique(checkExists, m) is called
GenStart(m) ==
  /\ gen.pc = "off" \/ GenFinished
  /\ gen.n < MaxGenCalls
  /\ gen' = [IdleGen EXCEPT !.pc = "loop", !.max = m, !.n = gen.n + 1]
  /\ UNCHANGED <<posts, req, served, ghost, apiToken, nodeEnv, mw, client>>

\* the loop test, then generate() or the throw after the loop
GenLoop ==
  /\ gen.pc = "loop"
  /\ IF loopContinues(gen.attempts, gen.max)
       THEN \E d \in Draws : gen' = [gen EXCEPT !.pc = "check", !.id = generate(d)]
       ELSE gen' = [gen EXCEPT !.pc = "thrown", !.error = GenerationFailed]
  /\ UNCHANGED <<posts, req, served, ghost, apiToken, nodeEnv, mw, client>>

\* checkExists(id) settles: true, false, or rejected (rethrown by the catch)
GenCheck ==
  /\ gen.pc = "check"
  /\ \/ \E answer \in BOOLEAN :
          gen' = onAnswer([gen EXCEPT !.calls = Append(@, ExistsCall(gen.id, answer, FALSE))],
                          answer)
     \/ gen' = [gen EXCEPT !.calls = Append(@, ExistsCall(gen.id, FALSE, TRUE)),
                           !.pc = "thrown", !.error = CheckRejected]
  /\ UNCHANGED <<posts, req, served, ghost, apiToken, nodeEnv, mw, client>>

InitGen ==
  /\ posts = {}
  /\ req = [r \in Reqs |-> IdleReq]
  /\ served = 0
  /\ ghost = [intended |-> [i \in GenIds |-> <<>>], acked |-> {},
              rejected |-> {}, submitted |-> [i \in GenIds |-> <<>>],
              deleted |-> [i \in GenIds |-> <<>>]]
  /\ apiToken = EnvToken(GoodToken)
  /\ nodeEnv = "production"
  /\ mw = IdleMw
  /\ gen = IdleGen
  /\ client = IdleClient

NextGen ==
  \/ \E m \in MaxAttemptsValues : GenStart(m)
  \/ GenLoop
  \/ GenCheck

SpecGen == InitGen /\ [][NextGen]_vars

\* the loop runs on and a settled promise resumes the function
SpecGenLive == SpecGen /\ WF_vars(GenLoop) /\ WF_vars(GenCheck)

(* ------------------------- generate() alone --------------------------- *)

\* the numerators of eight Math.random() values: one position takes every
\* value, the others sit at one end of the range
RandomRuns ==
  { [i \in 1..ID_LENGTH |-> IF i = k THEN n ELSE b] :
      k \in 1..ID_LENGTH, n \in 0..(RandomScale - 1), b \in {0, RandomScale - 1} }

\* IDGenerator.generate() with the random values ns
Generate(ns) ==
  /\ gen.pc \in {"off", "validated"}
  /\ gen.n < MaxGenCalls
  /\ gen' = [IdleGen EXCEPT !.pc = "generated", !.n = gen.n + 1,
                            !.id = generate([i \in 1..ID_LENGTH |-> randomIndex(ns[i])])]
  /\ UNCHANGED <<posts, req, served, ghost, apiToken, nodeEnv, mw, client>>

\* IDGenerator.isValidFormat of the id just generated
Validate ==
  /\ gen.pc = "generated"
  /\ gen' = [gen EXCEPT !.pc = "validated", !.valid = isValidFormat(gen.id)]
  /\ UNCHANGED <<posts, req, served, ghost, apiToken, nodeEnv, mw, client>>

NextDraw ==
  \/ \E ns \in RandomRuns : Generate(ns)
  \/ Validate

SpecDraw == InitGen /\ [][NextDraw]_vars

(* ------------------------ the error handler alone --------------------- *)

\* the values process.env.NODE_ENV can have (None: not set)
NodeEnvs == {"production", "development", "test", None}

\* createRateLimitError(message)
createRateLimitError(message) == Err("Error", message, 429, "RATE_LIMIT_EXCEEDED")

\* the errors that reach next(err): those the route handlers create, the
\* rejections of sqlite3, the failures of the id generator and the renderer,
\* the errors of the body parser, and errors made with the helpers
ThrownErrors ==
  { createError("Invalid post ID format", 400),
    createError("Post not found", 404),
    createError("Post not found or invalid secret", 401),
    createError("Service unavailable", 503),
    SqliteError(SQLITE_IOERR),
    SqliteError(SQLITE_CONSTRAINT),
    Err("Error", GenerationFailed, 0, None),
    Err("Error", "Failed to render post to HTML", 0, None),
    Err("PayloadTooLargeError", "request entity too large", 413, "entity.too.large"),
    Err("SyntaxError", "Unexpected token } in JSON at position 1", 400, None),
    Err("ValidationError", "title: Path title is required.", 0, None),
    Err("Error", "ENOENT: no such file or directory, open database.db", 0, "ENOENT"),
    createRateLimitError("Too many requests") }

\* the service token settings and the headers of the requests that meet
\* requireApiToken beside the error handler
ErrEnvTokens == { EnvUnset, EnvToken(<<>>), EnvToken(GoodToken) }

ErrHeaders == { NoHeader, GoodHeader, WrongHeader }

\* a handler calls next(err)
Raise(err) ==
  /\ mw.pc \in {"called"}
  /\ mw.calls < MaxCalls
  /\ mw' = [pc |-> "raised", fn |-> None, header |-> NoHeader,
            out |-> MwResult(<<>>, 0, NoAuth), calls |-> mw.calls + 1, err |-> err]
  /\ UNCHANGED <<posts, req, served, ghost, apiToken, nodeEnv, gen, client>>

CallErrorHandler ==
  /\ mw.pc = "raised"
  /\ mw' = [mw EXCEPT !.pc = "called", !.fn = "errorHandler",
                      !.out = MwResult(<<errorHandler(mw.err, nodeEnv)>>, 0, NoAuth)]
  /\ UNCHANGED <<posts, req, served, ghost, apiToken, nodeEnv, gen, client>>

InitErr ==
  /\ posts = {}
  /\ req = [r \in Reqs |-> IdleReq]
  /\ served = 0
  /\ ghost = [intended |-> [i \in GenIds |-> <<>>], acked |-> {},
              rejected |-> {}, submitted |-> [i \in GenIds |-> <<>>],
              deleted |-> [i \in GenIds |-> <<>>]]
  /\ apiToken \in ErrEnvTokens
  /\ nodeEnv \in NodeEnvs
  /\ \E err \in ThrownErrors :
       mw = [pc |-> "raised", fn |-> None, header |-> NoHeader,
             out |-> MwResult(<<>>, 0, NoAuth), calls |-> 1, err |-> err]
  /\ gen = IdleGen
  /\ client = IdleClient

NextErr ==
  \/ \E err \in ThrownErrors : Raise(err)
  \/ CallErrorHandler
  \/ \E hdr \in ErrHeaders : Arrive(hdr)
  \/ CallRequireApiToken

SpecErr == InitErr /\ [][NextErr]_vars

(* ------------------------ the comparisons alone ----------------------- *)

\* the strings compared: every string of t and k up to three characters
CmpStrings ==
  {<<>>} \cup UNION { [1..n -> {"t", "k"}] : n \in 1..3 }

IdleCmp == [pc |-> "off", fn |-> None, provided |-> <<>>, expected |-> <<>>,
            cmp |-> Compared(FALSE, 0), calls |-> 0]

\* requireApiToken reaches its comparison: a token is configured and the
\* header held one
RequireCompares(provided) ==
  /\ mw.calls < MaxCalls
  /\ apiToken.set /\ apiToken.value # <<>> /\ provided # <<>>
  /\ mw' = [pc |-> "compared", fn |-> "requireApiToken", provided |-> provided,
            expected |-> apiToken.value,
            cmp |-> compareTokens(provided, apiToken.value), calls |-> mw.calls + 1]
  /\ UNCHANGED <<posts, req, served, ghost, apiToken, nodeEnv, gen, client>>

\* validateApiToken(token)
ValidateCompares(token) ==
  /\ mw.calls < MaxCalls
  /\ mw' = [pc |-> "compared", fn |-> "validateApiToken", provided |-> token,
            expected |-> apiToken.value,
            cmp |-> validateApiToken(apiToken, token), calls |-> mw.calls + 1]
  /\ UNCHANGED <<posts, req, served, ghost, apiToken, nodeEnv, gen, client>>

\* IDGenerator.compareSecrets(provided, stored)
SecretsCompare(provided, stored) ==
  /\ mw.calls < MaxCalls
  /\ mw' = [pc |-> "compared", fn |-> "compareSecrets", provided |-> provided,
            expected |-> stored,
            cmp |-> compareSecrets(provided, stored), calls |-> mw.calls + 1]
  /\ UNCHANGED <<posts, req, served, ghost, apiToken, nodeEnv, gen, client>>

InitCmp ==
  /\ posts = {}
  /\ req = [r \in Reqs |-> IdleReq]
  /\ served = 0
  /\ ghost = [intended |-> [i \in GenIds |-> <<>>], acked |-> {},
              rejected |-> {}, submitted |-> [i \in GenIds |-> <<>>],
              deleted |-> [i \in GenIds |-> <<>>]]
  /\ apiToken \in {EnvUnset} \cup { EnvToken(t) : t \in CmpStrings }
  /\ nodeEnv = "production"
  /\ mw = IdleCmp
  /\ gen = IdleGen
  /\ client = IdleClient

NextCmp ==
  \/ \E provided \in CmpStrings : RequireCompares(provided)
  \/ \E token \in CmpStrings : ValidateCompares(token)
  \/ \E provided, stored \in CmpStrings : SecretsCompare(provided, stored)

SpecCmp == InitCmp /\ [][NextCmp]_vars

(* ------------- repeated authentication attempts of one caller --------- *)

\* the endpoints a request can target
Endpoints == {"POST /", "GET /:id", "PUT /:id", "DELETE /:id"}

\* the credentials the attempts carry
AttemptHeaders == { NoHeader, GoodHeader, WrongHeader }

\* no attempt yet; failures counts the attempts of this caller that were
\* refused, before the attempt being served the count in `before`
IdleAttempts == [pc |-> "off", fn |-> None, header |-> NoHeader, endpoint |-> None,
                 out |-> MwResult(<<>>, 0, NoAuth), calls |-> 0,
                 failures |-> 0, before |-> 0]

\* the caller sends its next request
Attempt(endpoint, hdr) ==
  /\ mw.pc \in {"off", "called"}
  /\ mw.calls < MaxAuthAttempts
  /\ mw' = [mw EXCEPT !.pc = "ready", !.fn = None, !.header = hdr,
                      !.endpoint = endpoint, !.calls = mw.calls + 1,
                      !.out = MwResult(<<>>, 0, NoAuth), !.before = mw.failures]
  /\ UNCHANGED <<posts, req, served, ghost, apiToken, nodeEnv, gen, client>>

\* requireApiToken serves it: a refusal is logged and answered, nothing
\* is counted by the code
CheckAttempt ==
  /\ mw.pc = "ready"
  /\ LET out == requireApiToken(apiToken, mw.header)
     IN  mw' = [mw EXCEPT !.pc = "called", !.fn = "requireApiToken", !.out = out,
                         !.failures = IF out.nexts = 0 THEN mw.failures + 1
                                                       ELSE mw.failures]
  /\ UNCHANGED <<posts, req, served, ghost, apiToken, nodeEnv, gen, client>>

InitRate ==
  /\ posts = {}
  /\ req = [r \in Reqs |-> IdleReq]
  /\ served = 0
  /\ ghost = [intended |-> [i \in GenIds |-> <<>>], acked |-> {},
              rejected |-> {}, submitted |-> [i \in GenIds |-> <<>>],
              deleted |-> [i \in GenIds |-> <<>>]]
  /\ apiToken = EnvToken(GoodToken)
  /\ nodeEnv = "production"
  /\ mw = IdleAttempts
  /\ gen = IdleGen
  /\ client = IdleClient

NextRate ==
  \/ \E e \in Endpoints, hdr \in AttemptHeaders : Attempt(e, hdr)
  \/ CheckAttempt

SpecRate == InitRate /\ [][NextRate]_vars

(* ------------- validateApiToken beside requireApiToken ---------------- *)

\* the values process.env.API_TOKEN can have, one of them with a blank first
TokEnvTokens == EnvTokens \cup { EnvToken(<<" ">> \o GoodToken) }

\* the strings a caller passes to validateApiToken
TokTokens ==
  { <<>>, GoodToken, WrongToken, <<"t">>, GoodToken \o <<"k">>,
    <<" ">> \o GoodToken, GoodToken \o <<" ">> }

\* validateApiToken(token)
CallValidateApiToken(token) ==
  /\ mw.pc = "called"
  /\ mw.calls < MaxCalls
  /\ mw' = [pc |-> "called", fn |-> "validateApiToken", header |-> NoHeader,
            out |-> MwResult(<<>>, 0, NoAuth), calls |-> mw.calls + 1,
            token |-> token, valid |-> validateApiToken(apiToken, token).result]
  /\ UNCHANGED <<posts, req, served, ghost, apiToken, nodeEnv, gen, client>>

InitTok ==
  /\ posts = {}
  /\ req = [r \in Reqs |-> IdleReq]
  /\ served = 0
  /\ ghost = [intended |-> [i \in GenIds |-> <<>>], acked |-> {},
              rejected |-> {}, submitted |-> [i \in GenIds |-> <<>>],
              deleted |-> [i \in GenIds |-> <<>>]]
  /\ apiToken \in TokEnvTokens
  /\ nodeEnv = "production"
  /\ \E hdr \in AuthHeaders :
       mw = [IdleMw EXCEPT !.pc = "ready", !.header = hdr, !.calls = 1]
  /\ gen = IdleGen
  /\ client = IdleClient

NextTok ==
  \/ \E hdr \in AuthHeaders : Arrive(hdr)
  \/ CallRequireApiToken
  \/ \E token \in TokTokens : CallValidateApiToken(token)

SpecTok == InitTok /\ [][NextTok]_vars

(* ----------------- the plugin with its vault and the server ----------- *)

FreeSlot(o) ==
  /\ client.ops[o].pc = "idle"
  /\ \A k \in OpSlots : k < o => client.ops[k].pc # "idle"

\* createPost(file) is called: title = file.basename, then await vault.read
CreatePostCalled(c, o, f) ==
  [c EXCEPT !.ops[o] = [IdleOp EXCEPT !.pc = "reading", !.kind = "create", !.file = f]]

\* updatePost(file) is called: post = data.posts[file.path], then await vault.read
UpdatePostCalled(c, o, f) ==
  [c EXCEPT !.ops[o] = [IdleOp EXCEPT !.pc = "reading", !.kind = "update", !.file = f,
                                      !.post = c.posts[c.path[f]]]]

\* publishFile(file), from the create command or the file menu, both
\* offered while getUrl(file) is null: createPost(file)
PublishFile(o, f) ==
  /\ FreeSlot(o)
  /\ client.present[f] /\ ~getUrl(client, f)
  /\ client' = CreatePostCalled(client, o, f)
  /\ UNCHANGED <<posts, req, served, ghost, apiToken, nodeEnv, mw, gen>>

\* publishPost(file) of the client interface
PublishPost(o, f) ==
  /\ FreeSlot(o)
  /\ client.present[f]
  /\ client' = IF client.posts[client.path[f]] # NoPost
                 THEN UpdatePostCalled(client, o, f)
                 ELSE CreatePostCalled(client, o, f)
  /\ UNCHANGED <<posts, req, served, ghost, apiToken, nodeEnv, mw, gen>>

\* updateFile(file), offered while getUrl(file) is not null
UpdateFile(o, f) ==
  /\ FreeSlot(o)
  /\ client.present[f] /\ getUrl(client, f)
  /\ client' = UpdatePostCalled(client, o, f)
  /\ UNCHANGED <<posts, req, served, ghost, apiToken, nodeEnv, mw, gen>>

\* deleteFile(file), offered while getUrl(file) is not null: deletePost
\* reads the entry and sends the DELETE at once
DeleteFile(o, f) ==
  /\ FreeSlot(o)
  /\ client.present[f] /\ getUrl(client, f)
  /\ LET post == client.posts[client.path[f]][1]
     IN  client' = [client EXCEPT !.ops[o] =
                      [IdleOp EXCEPT !.pc = "sent", !.kind = "delete", !.file = f,
                                     !.post = client.posts[client.path[f]],
                                     !.request = [method |-> "DELETE", id |-> post.id,
                                                  secret |-> post.secret]]]
  /\ UNCHANGED <<posts, req, served, ghost, apiToken, nodeEnv, mw, gen>>

\* vault.read(file) settles: rejected when the file is gone; otherwise the
\* request goes out (post.id of a missing entry throws inside the try)
ReadSettles(o) ==
  LET op == client.ops[o]
  IN  /\ op.pc = "reading"
      /\ client' =
           IF ~client.present[op.file]
             THEN [client EXCEPT !.ops[o].pc = "done", !.ops[o].thrown = "read rejected"]
           ELSE IF op.kind = "create"
             THEN [client EXCEPT !.ops[o].pc = "sent", !.ops[o].request.method = "POST"]
           ELSE IF op.post = NoPost
             THEN [client EXCEPT !.ops[o].pc = "done",
                                 !.ops[o].thrown = "Failed to update post"]
           ELSE [client EXCEPT !.ops[o].pc = "sent",
                               !.ops[o].request = [method |-> "PUT", id |-> op.post[1].id,
                                                   secret |-> op.post[1].secret]]
      /\ UNCHANGED <<posts, req, served, ghost, apiToken, nodeEnv, mw, gen>>

Answer(ok, id, secret) == [ok |-> ok, id |-> id, secret |-> secret]

\* the server handles the request and answers: 201 with a fresh id and
\* secret, 200 or 204 when the statement changed a row, an error otherwise
ServerAnswers(o) ==
  LET op == client.ops[o]
      rq == op.request
  IN  /\ op.pc = "sent"
      /\ \/ /\ rq.method = "POST"
            /\ \E id \in GenIds, secret \in GenSecrets :
                 /\ ~exists(posts, id)
                 /\ posts' = insert(posts, Row(id, secret, NoteBody.title, NoteBody.content)).tbl
                 /\ client' = [client EXCEPT !.ops[o].pc = "responded",
                                             !.ops[o].resp = Answer(TRUE, id, secret)]
         \/ /\ rq.method = "PUT"
            /\ LET r == update(posts, rq.id, rq.secret, NoteBody.title, NoteBody.content)
               IN  /\ posts' = r.tbl
                   /\ client' = [client EXCEPT !.ops[o].pc = "responded",
                                               !.ops[o].resp = Answer(r.changes > 0, <<>>, <<>>)]
         \/ /\ rq.method = "DELETE"
            /\ LET r == delete(posts, rq.id, rq.secret)
               IN  /\ posts' = r.tbl
                   /\ client' = [client EXCEPT !.ops[o].pc = "responded",
                                               !.ops[o].resp = Answer(r.changes > 0, <<>>, <<>>)]
         \/ /\ posts' = posts
            /\ client' = [client EXCEPT !.ops[o].pc = "responded",
                                        !.ops[o].resp = Answer(FALSE, <<>>, <<>>)]
      /\ UNCHANGED <<req, served, ghost, apiToken, nodeEnv, mw, gen>>

OpThrows(c, o, message) == [c EXCEPT !.ops[o].pc = "done", !.ops[o].thrown = message]

\* createPost after `await obsidianWrapper.createPost(...)`
createPostResumes(c, o) ==
  LET op == c.ops[o]
  IN  IF op.resp.ok
        THEN saveData([c EXCEPT !.posts[c.path[op.file]] = PostEntry(op.resp.id, op.resp.secret),
                                !.ops[o].pc = "done"])
        ELSE OpThrows(c, o, "Failed to create post")

\* updatePost after `await obsidianWrapper.updatePost(...)`
updatePostResumes(c, o) ==
  IF c.ops[o].resp.ok
    THEN [c EXCEPT !.ops[o].pc = "done"]
    ELSE OpThrows(c, o, "Failed to update post")

\* a deletePost that forgets the entry whatever the server answered
deletePostResumes_always(c, o) ==
  LET forgot == saveData([c EXCEPT !.posts[c.path[c.ops[o].file]] = NoPost])
  IN  IF c.ops[o].resp.ok
        THEN [forgot EXCEPT !.ops[o].pc = "done"]
        ELSE OpThrows(forgot, o, "Failed to delete post")

\* deletePost after `await obsidianWrapper.deletePost(...)`
deletePostResumes(c, o) ==
  IF c.ops[o].resp.ok
    THEN saveData([c EXCEPT !.posts[c.path[c.ops[o].file]] = NoPost, !.ops[o].pc = "done"])
    ELSE OpThrows(c, o, "Failed to delete post")

\* the answer reaches the plugin and the operation runs on
Resume(o) ==
  /\ client.ops[o].pc = "responded"
  /\ client' = CASE client.ops[o].kind = "create" -> createPostResumes(client, o)
                 [] client.ops[o].kind = "update" -> updatePostResumes(client, o)
                 [] client.ops[o].kind = "delete" -> deletePostResumes(client, o)
  /\ UNCHANGED <<posts, req, served, ghost, apiToken, nodeEnv, mw, gen>>

\* the vault renames a file to a path no file has, and tells the plugin
VaultRename(f, p) ==
  /\ client.events < MaxVaultEvents
  /\ client.present[f]
  /\ \A g \in Files : client.present[g] => client.path[g] # p
  /\ client' = handleNoteRename([client EXCEPT !.path[f] = p, !.events = @ + 1],
                                p, client.path[f])
  /\ UNCHANGED <<posts, req, served, ghost, apiToken, nodeEnv, mw, gen>>

\* the vault deletes a file, and tells the plugin
VaultDelete(f) ==
  /\ client.events < MaxVaultEvents
  /\ client.present[f]
  /\ client' = handleNoteDelete([client EXCEPT !.present[f] = FALSE, !.events = @ + 1],
                                client.path[f])
  /\ UNCHANGED <<posts, req, served, ghost, apiToken, nodeEnv, mw, gen>>

\* the posts the plugin tracks when it is loaded: none, the note a.md, or
\* a.md and b.md
LoadedPosts ==
  { [p \in Paths |-> NoPost],
    [p \in Paths |-> IF p = "a.md" THEN PostEntry(IdA, SecretA) ELSE NoPost],
    [p \in Paths |-> IF p = "a.md" THEN PostEntry(IdA, SecretA)
                     ELSE IF p = "b.md" THEN PostEntry(IdB, SecretB) ELSE NoPost] }

\* the server holds the posts the plugin tracks; the note f1 is a.md, the
\* note f2 is b.md or was deleted while the plugin was not loaded
InitClient ==
  /\ \E loaded \in LoadedPosts, there \in BOOLEAN :
       /\ client = [IdleClient EXCEPT !.posts = loaded, !.saved = loaded,
                                      !.path = [f \in Files |-> IF f = "f1" THEN "a.md" ELSE "b.md"],
                                      !.present = [f \in Files |-> f = "f1" \/ there]]
       /\ posts = { Row(loaded[p][1].id, loaded[p][1].secret, NoteBody.title, NoteBody.content) :
                      p \in { q \in Paths : loaded[q] # NoPost } }
  /\ req = [r \in Reqs |-> IdleReq]
  /\ served = 0
  /\ ghost = [intended |-> [i \in GenIds |-> <<>>], acked |-> {},
              rejected |-> {}, submitted |-> [i \in GenIds |-> <<>>],
              deleted |-> [i \in GenIds |-> <<>>]]
  /\ apiToken = EnvToken(GoodToken)
  /\ nodeEnv = "production"
  /\ mw = IdleMw
  /\ gen = IdleGen

NextClient ==
  \/ \E o \in OpSlots, f \in Files : PublishFile(o, f)
  \/ \E o \in OpSlots, f \in Files : PublishPost(o, f)
  \/ \E o \in OpSlots, f \in Files : UpdateFile(o, f)
  \/ \E o \in OpSlots, f \in Files : DeleteFile(o, f)
  \/ \E o \in OpSlots : ReadSettles(o)
  \/ \E o \in OpSlots : ServerAnswers(o)
  \/ \E o \in OpSlots : Resume(o)
  \/ \E f \in Files, p \in Paths : VaultRename(f, p)
  \/ \E f \in Files : VaultDelete(f)

SpecClient == InitClient /\ [][NextClient]_vars

(* --------------------------- loading the data ------------------------- *)

\* a JSON value: its type and, for a string or a number, its text
Val(t, v) == [t |-> t, v |-> v]

Undefined == Val("undefined", "")

Null == Val("null", "")

Str(v) == Val("string", v)

Num(v) == Val("number", v)

\* !!x
truthy(x) ==
  CASE x.t \in {"undefined", "null"} -> FALSE
    [] x.t = "string" -> x.v # ""
    [] x.t = "number" -> x.v # "0"
    [] OTHER -> TRUE

\* the settings field: absent, null, a string, or an object with the keys
\* it holds (Undefined: the key is not there)
SettingsField(t, serverUrl, authToken) ==
  [t |-> t, serverUrl |-> serverUrl, authToken |-> authToken]

NoSettings == SettingsField("undefined", Undefined, Undefined)

SettingsObject(serverUrl, authToken) == SettingsField("object", serverUrl, authToken)

DEFAULT_SETTINGS == SettingsObject(Str("https://share.141029.xyz"), Undefined)

\* the posts field: absent, or a map from paths to { id, secret }
PostsField(there, map) == [there |-> there, map |-> map]

NoPosts == PostsField(FALSE, [p \in Paths |-> NoPost])

\* what loadData() resolves to: null, or an object with its fields
Stored(t, postsField, settings) == [t |-> t, posts |-> postsField, settings |-> settings]

StoredSettings ==
  { NoSettings,
    SettingsField("null", Undefined, Undefined),
    SettingsField("string", Undefined, Undefined),
    SettingsObject(Undefined, Undefined),
    SettingsObject(Str("https://notes.example.org"), Undefined),
    SettingsObject(Str("https://notes.example.org"), Str("tk")),
    SettingsObject(Undefined, Str("tk")),
    SettingsObject(Str(""), Undefined),
    SettingsObject(Null, Undefined),
    SettingsObject(Num("42"), Str("tk")) }

StoredData ==
  { Stored("null", NoPosts, NoSettings) } \cup
  { Stored("object", ps, st) :
      ps \in {NoPosts} \cup { PostsField(TRUE, m) : m \in LoadedPosts },
      st \in StoredSettings }

\* `settings` as a condition: "" is the only string taken here, and it is falsy
settingsTruthy(st) == st.t = "object"

\* { ...DEFAULT_SETTINGS, ...settings }: the keys of settings win
spread(base, st) ==
  IF st.t # "object" THEN base
    ELSE SettingsObject(IF st.serverUrl # Undefined THEN st.serverUrl ELSE base.serverUrl,
                        IF st.authToken # Undefined THEN st.authToken ELSE base.authToken)

\* loadedData.posts || {}
postsOrEmpty(ps) == PostsField(TRUE, ps.map)

migratePluginData(loadedData) ==
  IF loadedData.t = "null" \/ (~loadedData.posts.there /\ loadedData.settings.t = "undefined")
    THEN Stored("object", PostsField(TRUE, NoPosts.map), DEFAULT_SETTINGS)
  ELSE IF ~settingsTruthy(loadedData.settings)
    THEN Stored("object", postsOrEmpty(loadedData.posts), DEFAULT_SETTINGS)
  ELSE Stored("object", postsOrEmpty(loadedData.posts),
              spread(DEFAULT_SETTINGS, loadedData.settings))

\* the loop over Object.entries(data.posts)
postsValid(map) ==
  \A p \in Paths :
    map[p] # NoPost => map[p][1].id # <<>> /\ map[p][1].secret # <<>>

validatePluginData(data) ==
  /\ data.t = "object"
  /\ data.posts.there
  /\ data.settings.t = "object"
  /\ truthy(data.settings.serverUrl) /\ data.settings.serverUrl.t = "string"
  /\ postsValid(data.posts.map)

\* onload has not run; then the data loaded, the data migrated, the answer
\* of the validation and the data the plugin works with
LoadData(loadedData) ==
  [pc |-> "loaded", loaded |-> loadedData, migrated |-> loadedData, valid |-> FALSE,
   data |-> loadedData, savedBack |-> FALSE]

\* const migratedData = migratePluginData(loadedData)
Migrate ==
  /\ client.pc = "loaded"
  /\ client' = [client EXCEPT !.pc = "migrated", !.migrated = migratePluginData(client.loaded)]
  /\ UNCHANGED <<posts, req, served, ghost, apiToken, nodeEnv, mw, gen>>

\* the validation: invalid data is replaced by the defaults; valid data is
\* saved back when the migration changed it, and returned
ValidateLoaded ==
  /\ client.pc = "migrated"
  /\ client' =
       IF ~validatePluginData(client.migrated)
         THEN [client EXCEPT !.pc = "ready", !.valid = FALSE,
                             !.data = Stored("object", PostsField(TRUE, NoPosts.map),
                                             DEFAULT_SETTINGS)]
         ELSE [client EXCEPT !.pc = "ready", !.valid = TRUE, !.data = client.migrated,
                             !.savedBack = (client.loaded # client.migrated)]
  /\ UNCHANGED <<posts, req, served, ghost, apiToken, nodeEnv, mw, gen>>

InitLoad ==
  /\ posts = {}
  /\ req = [r \in Reqs |-> IdleReq]
  /\ served = 0
  /\ ghost = [intended |-> [i \in GenIds |-> <<>>], acked |-> {},
              rejected |-> {}, submitted |-> [i \in GenIds |-> <<>>],
              deleted |-> [i \in GenIds |-> <<>>]]
  /\ apiToken = EnvToken(GoodToken)
  /\ nodeEnv = "production"
  /\ mw = IdleMw
  /\ gen = IdleGen
  /\ \E loadedData \in StoredData : client = LoadData(loadedData)

NextLoad ==
  \/ Migrate
  \/ ValidateLoaded

SpecLoad == InitLoad /\ [][NextLoad]_vars

(* ------------------------------ properties ---------------------------- *)

Done(r) == req[r].pc = "done"

\* the status of the answer of a finished request
Status(r) == req[r].sent[1].status

Mutation(r) == req[r].method \in {"PUT", "DELETE"}

\* an id of exactly 8 symbols of the identifier alphabet
WellFormedId(id) == Len(id) = 8 /\ \A i \in 1..Len(id) : id[i] \in Range(CHARS)

\* 8-4-4-4-12 hex digits, version digit 4, variant digit 8, 9, a or b
WellFormedSecret(s) ==
  /\ Len(s) = 36
  /\ \A i \in 1..36 :
       IF i \in {9, 14, 19, 24} THEN s[i] = "-"
       ELSE IF i = 15 THEN s[i] = "4"
       ELSE IF i = 20 THEN s[i] \in {"8", "9", "a", "b", "A", "B"}
       ELSE s[i] \in HexDigits \cup {"A", "B", "C", "D", "E", "F"}

\* the submitted title and content have an accepted length
WellFormedBody(body) ==
  /\ TextLen(body.title) \in 1..200
  /\ TextLen(body.content) \in 1..100000

\* a PUT or DELETE that passes every format check of its route
WellFormedMutation(r) ==
  /\ WellFormedId(req[r].id)
  /\ WellFormedSecret(req[r].secret)
  /\ req[r].method = "PUT" => WellFormedBody(req[r].body)

\* a row is changed or removed only by the statement of a PUT/DELETE that
\* names its id and presents its secret
C1_OnlyBySecretHolder ==
  \A row \in posts \ posts' :
    \E r \in Reqs :
      /\ req[r].pc \in {"update", "delete"}
      /\ req'[r].pc # req[r].pc
      /\ req[r].id = row.id
      /\ req[r].secret = row.secret

Unauthorized ==
  Response(401, [error |-> [message |-> "Post not found or invalid secret",
                            code |-> "INTERNAL_ERROR"]])

CarriesServiceToken(hdr) ==
  /\ hdr.present
  /\ apiToken.set
  /\ \E k \in 1..Len(hdr.value) :
       /\ SubSeq(hdr.value, 1, Len(Bearer)) = Bearer
       /\ k > Len(Bearer)
       /\ \A i \in (Len(Bearer) + 1)..k : hdr.value[i] \in {" ", "\t"}
       /\ SubSeq(hdr.value, k + 1, Len(hdr.value)) = apiToken.value
       /\ apiToken.value # <<>>

\* C3 as stated: no create, read, update or delete handler executes unless
\* the request carried a bearer credential equal to the configured service
\* token; a request without a matching credential never reaches the store.
C3_ServiceTokenRequired ==
  \A r \in Reqs :
    req[r].handlerRan \/ req[r].usedStore \/ req[r].applied
      => CarriesServiceToken(req[r].auth)

\* C4: in every reachable state of the store no two stored posts share a
\* public id, and an INSERT that meets a row of its id changes nothing.
C4_UniqueId ==
  /\ \A x, y \in posts : x.id = y.id => x = y
  /\ \A r \in Reqs :
       req[r].method = "POST" /\ req[r].rowExisted => ~req[r].applied

\* C4 witness: of two concurrent creates that drew the same id the second
\* INSERT was refused and the row of the first is in the table
C4_Witness ==
  \E r \in Reqs :
    /\ Done(r) /\ req[r].method = "POST" /\ req[r].rowExisted
    /\ \E row \in posts : row.id = req[r].id /\ row.secret # req[r].secret

\* C5 as stated: a create whose INSERT hits the uniqueness constraint goes
\* back to the generation loop with a fresh id, up to the bounded number of
\* attempts, instead of failing the request.
C5_CollisionRetried ==
  [][\A r \in Reqs :
       /\ req[r].pc = "insert"
       /\ req'[r].pc # "insert"
       /\ \E row \in posts : row.id = req[r].id
       /\ ~req'[r].failed
       => \/ req'[r].pc = "exists"
          \/ req'[r].attempts >= maxAttempts]_vars

\* the answer a GET owes to the representation rep (<<>> when the post is gone)
C6_Owed(id, accept, rep) ==
  IF rep = <<>>
    THEN Response(404, [error |-> [message |-> "Post not found",
                                   code |-> "INTERNAL_ERROR"]])
  ELSE IF accept = JSON
    THEN Response(200, [success |-> TRUE,
                        data |-> [id |-> id, title |-> rep[1].title,
                                  content |-> rep[1].content]])
  ELSE Response(200, [html |-> renderToHtml(rep[1])])

\* C6: once a PUT or DELETE for an id has been acknowledged with 204, every
\* GET for that id that starts afterwards and reads the store is answered
\* with the state left by the latest applied write (the new title and
\* content, or 404 after a delete), never with an earlier representation.
C6_ReadAfterWrite ==
  \A r \in Reqs :
    /\ Done(r) /\ req[r].method = "GET" /\ req[r].afterAck
    /\ req[r].usedStore /\ ~req[r].failed
    => req[r].sent = <<C6_Owed(req[r].id, req[r].accept, req[r].expected)>>

\* C6 witness: a GET that started after the 204 of a PUT which changed the
\* title has been answered 200
C6_Witness ==
  \E r \in Reqs :
    /\ Done(r) /\ req[r].method = "GET" /\ req[r].afterAck /\ req[r].accept = JSON
    /\ Status(r) = 200
    /\ req[r].sent[1].body.data.title = Sanitized(MarkupBody).title
    /\ req[r].id = IdA

StoredSecrets == { row.secret : row \in posts }

\* the secrets a response carries: a secret field of the body or of its
\* data, and the secret values quoted by the validation details
SecretsSent(resp) ==
  LET body == resp.body
      inBody == IF "secret" \in DOMAIN body THEN {body.secret} ELSE {}
      inData == IF "data" \in DOMAIN body
                  THEN IF "secret" \in DOMAIN body.data THEN {body.data.secret} ELSE {}
                  ELSE {}
      inDetails ==
        IF "error" \in DOMAIN body
          THEN IF "details" \in DOMAIN body.error
                 THEN { body.error.details[i].value :
                          i \in { j \in 1..Len(body.error.details) :
                                    body.error.details[j].param = "secret" } }
                 ELSE {}
          ELSE {}
  IN  inBody \cup inData \cup inDetails

\* the table with every secret s replaced by f[s]
Resecret(tbl, f) == { [row EXCEPT !.secret = f[row.secret]] : row \in tbl }

\* C7: a stored secret is sent only in the 201 response of the create that
\* generated it, no GET response and no error response carries one, and the
\* answers to GET (JSON and HTML) are the same for two stores that differ only
\* in the stored secrets.
C7_SecretConfined ==
  /\ \A r \in Reqs : \A i \in 1..Len(req[r].sent) :
       \A sec \in SecretsSent(req[r].sent[i]) \cap StoredSecrets :
         /\ req[r].method = "POST"
         /\ req[r].sent[i].status = 201
         /\ sec = req[r].secret
  /\ \A f \in [StoredSecrets -> GenSecrets \cup {BadSecret}] :
       \A id \in GenIds, accept \in {JSON, HTML} :
         getOutcome(findById(Resecret(posts, f), id), accept, nodeEnv)
           = getOutcome(findById(posts, id), accept, nodeEnv)

\* C7 witness: a GET of a stored post has been answered 200 with JSON while
\* another post with another secret is stored too
C7_Witness ==
  \E r \in Reqs :
    /\ Done(r) /\ req[r].method = "GET" /\ req[r].accept = JSON /\ Status(r) = 200
    /\ \E row \in posts : row.id = req[r].id
    /\ Cardinality(StoredSecrets) = 2

C10_OneTerminalState ==
  \A r \in Reqs :
    /\ Len(req[r].sent) <= 1
    /\ Done(r) =>
         /\ Len(req[r].sent) = 1
         /\ IF Status(r) >= 400
              THEN ~req[r].handlerRan /\ ~req[r].applied
              ELSE /\ CarriesServiceToken(req[r].auth)
                   /\ Mutation(r) => ~req[r].noMatch

\* the places where the whitespace after "Bearer" can end with a token left
BearerSplits(v) ==
  { k \in (Len(Bearer) + 1)..(Len(v) - 1) :
      /\ SubSeq(v, 1, Len(Bearer)) = Bearer
      /\ \A i \in (Len(Bearer) + 1)..k : v[i] \in {" ", "\t"} }

\* the header value is 'Bearer <token>'
IsBearerForm(v) == BearerSplits(v) # {}

\* the token of a 'Bearer <token>' value: what follows the whitespace
PresentedToken(v) ==
  LET k == CHOOSE k \in BearerSplits(v) : \A j \in BearerSplits(v) : j <= k
  IN  SubSeq(v, k + 1, Len(v))

\* an outcome: next() with req.auth.tokenValid = true (status 0), or one
\* response with a status and an error code
Passed == [status |-> 0, code |-> "next, tokenValid"]

Refused(status, code) == [status |-> status, code |-> code]

\* what one call did; [status |-> -1] for anything that is not one outcome
OutcomeOf(out) ==
  IF out.nexts = 1 /\ out.sent = <<>> /\ out.auth.defined /\ out.auth.tokenValid
    THEN Passed
  ELSE IF out.nexts = 0 /\ Len(out.sent) = 1 /\ ~out.auth.defined
    THEN Refused(out.sent[1].status, out.sent[1].body.error.code)
  ELSE Refused(-1, "no single outcome")

NotConfigured(env) == ~env.set \/ env.value = <<>>

\* the classification of C9, with `missing` telling when the header counts
\* as not there
C9_Classes(env, hdr, missing) ==
  IF NotConfigured(env) THEN Refused(500, "MISSING_API_TOKEN_CONFIG")
  ELSE IF missing THEN Refused(401, "MISSING_AUTHORIZATION")
  ELSE IF ~IsBearerForm(hdr.value) THEN Refused(401, "INVALID_AUTHORIZATION_FORMAT")
  ELSE IF PresentedToken(hdr.value) # env.value THEN Refused(401, "INVALID_API_TOKEN")
  ELSE Passed

RequireCalled == mw.pc = "called" /\ mw.fn = "requireApiToken"

\* C9 as stated: requireApiToken gives every request exactly one outcome, in
\* this order: 500 MISSING_API_TOKEN_CONFIG when no service token is
\* configured; 401 MISSING_AUTHORIZATION when there is no Authorization
\* header; 401 INVALID_AUTHORIZATION_FORMAT when the header is not
\* 'Bearer <token>'; 401 INVALID_API_TOKEN when the token differs from the
\* configured one; next() with tokenValid = true exactly when the presented
\* token equals the configured one.
C9_Original ==
  RequireCalled =>
    OutcomeOf(mw.out) = C9_Classes(apiToken, mw.header, ~mw.header.present)

\* C9 (amended): the same classification, where 401 MISSING_AUTHORIZATION is
\* the outcome when there is no Authorization header or its value is empty.
C9_Amended ==
  RequireCalled =>
    OutcomeOf(mw.out) =
      C9_Classes(apiToken, mw.header, ~mw.header.present \/ mw.header.value = <<>>)

\* C9 witness: a request with an empty Authorization header met a configured
\* token and got 401 MISSING_AUTHORIZATION
C9_Witness ==
  /\ RequireCalled
  /\ mw.header.present /\ mw.header.value = <<>>
  /\ ~NotConfigured(apiToken)
  /\ OutcomeOf(mw.out) = Refused(401, "MISSING_AUTHORIZATION")

\* every checkExists call so far answered true
AllCollide(calls) ==
  \A i \in 1..Len(calls) : calls[i].exists /\ ~calls[i].rejected

\* C11: generateUnique with an existence check that always returns true
\* never makes more than maxAttempts calls of it, ends with the 'Failed to
\* generate unique ID' error after exactly maxAttempts calls (10 by default),
\* and every invocation ends.
C11_ExhaustsExactly ==
  /\ [](AllCollide(gen.calls) => Len(gen.calls) <= gen.max)
  /\ [](GenFinished /\ AllCollide(gen.calls)
          => /\ gen.pc = "thrown"
             /\ gen.error = GenerationFailed
             /\ Len(gen.calls) = gen.max)
  /\ (gen.pc \in {"loop", "check"} ~> GenFinished)

\* C11 witness: with the default maxAttempts the tenth collision has ended
\* the invocation with the generation error
C11_Witness ==
  /\ gen.pc = "thrown" /\ gen.error = GenerationFailed
  /\ gen.max = 10 /\ Len(gen.calls) = 10
  /\ AllCollide(gen.calls)

\* C12: generateUnique returns the first generated id for which the
\* existence check answered false: the id returned is the argument of the
\* last call, that call answered false, every earlier call answered true, and
\* the number of calls is the number of collisions plus one, below the
\* attempt bound.
C12_FirstMiss ==
  gen.pc = "returned" =>
    LET n == Len(gen.calls)
        collisions == { i \in 1..n : gen.calls[i].exists }
    IN  /\ n >= 1
        /\ gen.result = gen.calls[n].id
        /\ ~gen.calls[n].exists /\ ~gen.calls[n].rejected
        /\ \A i \in 1..(n - 1) : gen.calls[i].exists /\ ~gen.calls[i].rejected
        /\ n = Cardinality(collisions) + 1
        /\ Cardinality(collisions) < gen.max

\* C12 witness: two candidates collided and the third one was returned
C12_Witness ==
  /\ gen.pc = "returned"
  /\ Len(gen.calls) = 3
  /\ gen.calls[1].exists /\ gen.calls[2].exists
  /\ gen.result # gen.calls[1].id

Confusables == {"0", "O", "1", "I", "l"}

\* C13: every id returned by generate has length exactly 8 and consists only
\* of characters of the identifier alphabet, none of them 0, O, 1, I or l,
\* and isValidFormat accepts it, whatever the random source yields.
C13_GeneratedWellFormed ==
  gen.pc \in {"generated", "validated"} =>
    /\ Len(gen.id) = 8
    /\ \A i \in 1..Len(gen.id) :
         gen.id[i] \in Range(CHARS) /\ gen.id[i] \notin Confusables
    /\ gen.pc = "validated" => gen.valid

\* C13 witness: the random source gave its largest value first and its
\* smallest afterwards, and the id was accepted
C13_Witness ==
  /\ gen.pc = "validated" /\ gen.valid
  /\ gen.id[1] = "9" /\ gen.id[ID_LENGTH] = "a"

\* C14: no post is partially created: an INSERT for an id is issued only
\* after an existence check for that same id answered false, and a create
\* that obtains no id (every attempt collides, or the existence check itself
\* fails) issues no INSERT, is answered with a 500 error and leaves the store
\* unchanged.
C14_CheckedBeforeInsert ==
  \A r \in Reqs :
    /\ req[r].inserted => req[r].freeId = req[r].id /\ ~req[r].noId
    /\ req[r].noId =>
         /\ Done(r) /\ Status(r) = 500
         /\ ~req[r].inserted /\ ~req[r].applied

\* C14 witness: all ten candidates of a create collided and the create was
\* answered 500 with both rows still in the table
C14_Witness ==
  \E r \in Reqs :
    /\ Done(r) /\ req[r].method = "POST" /\ req[r].noId /\ ~req[r].failed
    /\ req[r].attempts = 10
    /\ Status(r) = 500
    /\ Cardinality(posts) = 2

\* C15 as stated: for every title and content within the length limits, a
\* GET with Accept: application/json issued after the 201 of a POST, with no
\* PUT or DELETE for that id in between, returns exactly the title and the
\* content that were submitted, together with the id returned by the POST.
C15_RoundTrip ==
  \A r \in Reqs :
    /\ Done(r) /\ req[r].method = "GET" /\ req[r].accept = JSON
    /\ req[r].created # <<>> /\ ~req[r].failed
    => /\ Status(r) = 200
       /\ req[r].sent[1].body.data.id = req[r].id
       /\ req[r].sent[1].body.data.title = req[r].created[1].title
       /\ req[r].sent[1].body.data.content = req[r].created[1].content

C17_SecretImmutable ==
  [][\A new \in posts' :
       IF \E old \in posts : old.id = new.id
         THEN \A old \in posts : old.id = new.id => old.secret = new.secret
         ELSE \E r \in Reqs :
                /\ req[r].pc = "insert"
                /\ req[r].id = new.id
                /\ req[r].secret = new.secret
                /\ new.secret \in GenSecrets]_vars

\* C17 witness: a PUT has rewritten the title of a post and been answered
\* 204, and the row still has the secret the PUT presented
C17_Witness ==
  \E r \in Reqs :
    /\ Done(r) /\ req[r].method = "PUT" /\ req[r].applied /\ Status(r) = 204
    /\ \E row \in posts :
         row.id = req[r].id /\ row.title = req[r].title /\ row.secret = req[r].secret

TooLong(body) == TextLen(body.title) > 200 \/ TextLen(body.content) > 100000

\* C18 as stated: every stored post has a title of at most 200 characters
\* and a content of at most 100,000 characters; a POST or PUT whose title is
\* longer than 200 or whose content is longer than 100,000 characters is
\* answered 400 and stores nothing.
C18_LengthBounded ==
  /\ \A row \in posts : TextLen(row.title) <= 200 /\ TextLen(row.content) <= 100000
  /\ \A r \in Reqs :
       req[r].method \in {"POST", "PUT"} /\ TooLong(req[r].body)
         => Done(r) /\ Status(r) = 400 /\ ~req[r].usedStore /\ ~req[r].applied

\* the row of id is what the latest applied write left, whole
AsWritten(id) ==
  IF \E row \in posts : row.id = id
    THEN LET row == CHOOSE row \in posts : row.id = id
         IN  ghost.intended[id] = <<Body(row.title, row.content)>>
    ELSE ghost.intended[id] = <<>>

GenericError == [message |-> "Internal Server Error", code |-> "INTERNAL_ERROR"]

\* the answer of requireApiToken to a missing service token: a fixed text
ConfigError == [message |-> "Server configuration error", code |-> "MISSING_API_TOKEN_CONFIG"]

\* the messages errorHandler substitutes for an error of a known kind
TypedMessages ==
  { "Invalid request data", "Resource conflict", "Resource not found",
    "Invalid API token", "Authorization header is required",
    "Invalid Authorization header format" }

ErrorHandled == mw.pc = "called" /\ mw.fn = "errorHandler"

C22_EveryByteCompared ==
  mw.pc = "compared" =>
    mw.cmp.compared = Max(Len(mw.provided), Len(mw.expected))

validChars ==
  <<"a", "b", "c", "d", "e", "f", "g", "h", "i", "j", "k", "m", "n", "p",
    "q", "r", "s", "t", "u", "v", "w", "x", "y", "z"
   >> \o <<"A", "B", "C", "D", "E", "F", "G", "H", "J", "K", "M", "N", "P",
    "Q", "R", "S", "T", "U", "V", "W", "X", "Y", "Z"
   >> \o <<"2", "3", "4", "5", "6", "7", "8", "9">>

\* the alphabet is the documented string, free of 0, O, 1, I, l, and the ids
\* generate() returns and isValidFormat accepts are made of it
AlphabetAsDocumented ==
  /\ CHARS = validChars
  /\ Range(CHARS) \cap Confusables = {}
  /\ gen.pc \in {"generated", "validated"} => Range(gen.id) \subseteq Range(validChars)
  /\ gen.pc = "validated" => gen.valid

\* C24 as stated: the alphabet of generate and isValidFormat has exactly 54
\* distinct symbols, is the documented alphabet string and holds none of
\* 0, O, 1, I, l.
C24_Original ==
  /\ Cardinality(Range(CHARS)) = 54
  /\ AlphabetAsDocumented

\* C24 (amended): the alphabet has exactly 55 distinct symbols (24 lower-case
\* letters, 23 upper-case letters, 8 digits), is the documented alphabet
\* string and holds none of 0, O, 1, I, l.
C24_Amended ==
  /\ Len(CHARS) = 55
  /\ Cardinality(Range(CHARS)) = 55
  /\ Cardinality({ c \in Range(CHARS) : c \in Range(SubSeq(validChars, 1, 24)) }) = 24
  /\ Cardinality({ c \in Range(CHARS) : c \in Range(SubSeq(validChars, 25, 47)) }) = 23
  /\ Cardinality({ c \in Range(CHARS) : c \in Range(SubSeq(validChars, 48, 55)) }) = 8
  /\ AlphabetAsDocumented

\* C24 witness: generate() drew the 55th symbol and isValidFormat accepted
\* the id
C24_Witness ==
  /\ gen.pc = "validated"
  /\ gen.valid
  /\ gen.id[1] = CHARS[55]
  /\ gen.id[1] = "9"

ValidateCalled == mw.pc = "called" /\ mw.fn = "validateApiToken"

\* requireApiToken calls next() for the request that presents the token
RequireAccepts(env, token) ==
  requireApiToken(env, Header(Bearer \o <<" ">> \o token)).nexts = 1

\* the token a header presents: what follows 'Bearer' and its whitespace,
\* nothing when the header is missing or of another form
HeaderToken(hdr) ==
  IF hdr.present /\ IsBearerForm(hdr.value) THEN PresentedToken(hdr.value) ELSE <<>>

LeadingBlank(token) == token # <<>> /\ token[1] \in {" ", "\t"}

\* the two functions decide alike on the tokens and headers told by `covered`
SameDecision(covered(_, _)) ==
  /\ ValidateCalled /\ covered(apiToken, mw.token) =>
        mw.valid = RequireAccepts(apiToken, mw.token)
  /\ RequireCalled /\ covered(apiToken, HeaderToken(mw.header)) =>
        /\ (mw.out.nexts = 1) = validateApiToken(apiToken, HeaderToken(mw.header)).result
        /\ mw.out.nexts = 0 =>
              /\ Len(mw.out.sent) = 1
              /\ mw.out.sent[1].status \in {401, 500}

AnyToken(env, token) == TRUE

NoLeadingBlank(env, token) == ~LeadingBlank(env.value) /\ ~LeadingBlank(token)

\* C27 as stated: for every configured token and every presented token,
\* validateApiToken returns true exactly when requireApiToken calls next()
\* for a request presenting that token, and false whenever requireApiToken
\* answers 401 or 500, an unset or empty configured token included.
C27_Original == SameDecision(AnyToken)

\* C27 (amended): the same, for configured and presented tokens that do not
\* begin with whitespace.
C27_Amended == SameDecision(NoLeadingBlank)

\* C27 witness: validateApiToken accepted the configured token, and
\* refused a token while no token was configured
C27_Witness ==
  /\ ValidateCalled
  /\ \/ mw.valid /\ mw.token = GoodToken /\ apiToken = EnvToken(GoodToken)
     \/ ~mw.valid /\ mw.token = GoodToken /\ apiToken = EnvUnset

\* the operation in slot o answered by the server, about to run on
Answered(o, kind) ==
  /\ client.ops[o].kind = kind
  /\ client.ops[o].pc = "responded"
  /\ client'.ops[o].pc = "done"

\* C25: publishing a note whose path is tracked sends an update and no
\* second create, and no create overwrites an existing binding: a create
\* starts only for an untracked path, and when its answer arrives the path
\* of its file is still unbound.
C25_NoSecondCreate ==
  [][ \A o \in OpSlots :
        /\ client.ops[o].pc = "idle" /\ client'.ops[o].kind = "create" =>
              ~getUrl(client, client'.ops[o].file)
        /\ Answered(o, "create") /\ client.ops[o].resp.ok =>
              client.posts[client.path[client.ops[o].file]] = NoPost ]_vars

\* the step is one of the operation in slot o
OpStep(o) == client'.ops[o] # client.ops[o]

\* C26: the posts map changes only after the server confirmed: createPost
\* stores {id, secret} of the answer under the path of the file and saves,
\* only when the POST succeeded; deletePost removes the entry and saves, only
\* when the DELETE succeeded; updatePost leaves the map alone; and when the
\* server call failed, map and saved data stay as they are, nothing is
\* saved, and the operation throws.
C26_MapFollowsServer ==
  [][ \A o \in OpSlots :
        OpStep(o) =>
          LET op   == client.ops[o]
              path == client.path[op.file]
          IN  IF Answered(o, "create") /\ op.resp.ok
                THEN /\ client'.posts =
                          [client.posts EXCEPT ![path] = PostEntry(op.resp.id, op.resp.secret)]
                     /\ client'.saved = client'.posts
                     /\ client'.ops[o].thrown = None
              ELSE IF Answered(o, "delete") /\ op.resp.ok
                THEN /\ client'.posts = [client.posts EXCEPT ![path] = NoPost]
                     /\ client'.saved = client'.posts
                     /\ client'.ops[o].thrown = None
              ELSE /\ client'.posts = client.posts
                   /\ client'.saved = client.saved
                   /\ client'.saves = client.saves
                   /\ op.pc = "responded" /\ ~op.resp.ok =>
                         /\ client'.ops[o].pc = "done"
                         /\ client'.ops[o].thrown \in
                               { "Failed to create post", "Failed to update post",
                                 "Failed to delete post" } ]_vars

\* C26 witness: a create was confirmed and its entry stored and saved, and
\* a delete of that note failed and left the entry
C26_Witness ==
  \E o, k \in OpSlots :
    /\ client.ops[o].kind = "create" /\ client.ops[o].pc = "done"
    /\ client.ops[o].resp.ok
    /\ client.ops[k].kind = "delete" /\ client.ops[k].pc = "done"
    /\ client.ops[k].thrown = "Failed to delete post"
    /\ client.ops[k].file = client.ops[o].file
    /\ client.saved[client.path[client.ops[o].file]]
         = PostEntry(client.ops[o].resp.id, client.ops[o].resp.secret)
    /\ client.posts = client.saved

\* C28: every post the plugin created on the server and did not delete is
\* tracked in the posts map with its secret, from the moment the answer to
\* its create has reached the plugin.
C28_LivePostsTracked ==
  \A row \in posts :
    \/ \E p \in Paths : client.posts[p] = PostEntry(row.id, row.secret)
    \/ \E o \in OpSlots :
         /\ client.ops[o].kind = "create" /\ client.ops[o].pc = "responded"
         /\ client.ops[o].resp = Answer(TRUE, row.id, row.secret)

\* the (id, secret) pairs the plugin tracks
TrackedPairs(c) == { c.posts[p] : p \in Paths } \ {NoPost}

\* C29: handleNoteRename moves the entry of oldPath to the new path with
\* id and secret unchanged, changes and loses no other entry, so that the
\* set of tracked (id, secret) pairs stays the same; when oldPath is
\* untracked it changes nothing and saves nothing.
C29_RenamePreserves ==
  [][ \A f \in Files, p \in Paths :
        VaultRename(f, p) =>
          LET oldPath == client.path[f]
          IN  IF client.posts[oldPath] # NoPost
                THEN /\ client'.posts[p] = client.posts[oldPath]
                     /\ \A q \in Paths \ {p, oldPath} : client'.posts[q] = client.posts[q]
                     /\ TrackedPairs(client') = TrackedPairs(client)
                ELSE /\ client'.posts = client.posts
                     /\ client'.saved = client.saved
                     /\ client'.saves = client.saves ]_vars

\* C30: loading never loses tracked posts: when the stored data holds a
\* well-formed posts map, the data the plugin works with after
\* migratePluginData and the validatePluginData check of onload holds
\* exactly the same posts, whatever the settings field holds or lacks.
C30_PostsSurviveLoad ==
  client.pc = "ready" /\ client.loaded.t = "object" /\ client.loaded.posts.there
    /\ postsValid(client.loaded.posts.map) =>
      client.data.posts = client.loaded.posts

====
